---- MODULE Spec2Model ----
(***************************************************************************)
(* Model of the PDF -> JSONL pipeline of vinculum:                         *)
(*   src/python/pdfalign_aligner/pipeline.py   (PDFToJSONLPipeline)        *)
(*   src/python/pdf_pipeline/merge_md_to_jsonl.py                          *)
(* One PDFToJSONLPipeline object, the directories it works on, and the     *)
(* calls made on it.                                                       *)
(*                                                                         *)
(* Conventions.  A text is a sequence of words, so that ' '.join is the    *)
(* concatenation of texts.  A file on disk is a record                     *)
(* [complete, body]; a directory is a function from file keys (triples of  *)
(* strings) to files.  An absent optional value is <<>>, a present one     *)
(* <<v>>.  Stage outcomes are "ok" (True), "fail" (False), "raised" (an    *)
(* exception left the method).                                             *)
(***************************************************************************)
EXTENDS Integers, Sequences, FiniteSets, TLC

VARIABLES
    config,     \* self.config, fixed at construction
    clock,      \* datetime.now(), in seconds
    mdDirs,     \* the subdirectories of data_dir: dir name -> sorted md files
    deliv,      \* the regular files of data_dir (the deliverable directory)
    expDir,     \* whether experiments_dir exists
    srcFile,    \* experiments_dir / source_data_file: <<>> or <<file>>
    exps,       \* experiments_dir: experiment id -> directory
    inst,       \* detected_language_src, detected_language_tgt, last_experiment_dir
    run,        \* run_full_pipeline: its position, arguments and stage results
    al,         \* run_bert_alignment: its position and locals
    pm,         \* apply_production_mode: its position and locals
    calls,      \* number of calls made on the object so far
    hist,       \* what the last completed calls were (history, not program state)
    vd,         \* validate_alignments.py: process_jsonl_file, its position and locals
    sp,         \* split_pdfs_by_page_parallel.py: the files and the pool's workers
    wr          \* wrapper.py: generate_jsonl, its position, locals and output directory

vars == <<config, clock, mdDirs, deliv, expDir, srcFile, exps,
          inst, run, al, pm, calls, hist, vd, sp, wr>>

----------------------------------------------------------------------------
(* Bounds *)

MaxLines == 1
MaxClock == 1
MaxCalls == 2
MaxSents == 2
MaxFiles == 2
MaxRecords == 3

----------------------------------------------------------------------------
(* Values *)

\* Language codes in lexicographic order (the order sorted() gives).
LangOrder == <<"en", "fr", "it">>

Langs == {LangOrder[i] : i \in 1..Len(LangOrder)}

None == <<>>

Some(v) == <<v>>

The(o) == o[1]

File(body) == [complete |-> TRUE, body |-> body]

\* What a copy or write leaves behind when it is interrupted by an error.
Truncated == [complete |-> FALSE, body |-> <<>>]

ChunksKey == <<"chunks.jsonl", "", "">>

PairKey(s, t) == <<"pair", s, t>>

AlignedKey(s, t) == <<"aligned", s, t>>

MetadataKey(s, t) == <<"metadata", s, t>>

EmptyDir == [k \in {} |-> Truncated]

\* d with file k (over)written as f.
Put(d, k, f) == [x \in DOMAIN d \cup {k} |-> IF x = k THEN f ELSE d[x]]

----------------------------------------------------------------------------
(* Markdown folders: what the conversion leaves under data_dir *)

Text(l, i) == << <<l, i>> >>

\* The lines of the page file of language l with n text lines; every text
\* line is followed by an empty one.
RECURSIVE PageLines(_, _)
PageLines(l, n) ==
    IF n = 0 THEN <<>> ELSE PageLines(l, n - 1) \o <<Text(l, n), <<>>>>

\* An md file: `name` is its file name as (matches the pattern, language,
\* page); a name that does not match carries no language.
MdFile(ok, l, lines) == [matches |-> ok, language |-> l, page |-> 1, lines |-> lines]

\* data_dir/<l>/ : a stray md file first, then the page file doc_<l>_page_001.md
LangDir(l, n) ==
    <<MdFile(FALSE, "", <<Text(l, 0)>>), MdFile(TRUE, l, PageLines(l, n))>>

\* One folder per language of the set present, each with MaxLines text lines.
MkDocs(present) == [l \in present |-> LangDir(l, MaxLines)]

DocSets == {MkDocs(present) : present \in SUBSET Langs}

NoDirs == [l \in {} |-> <<>>]

----------------------------------------------------------------------------
(* merge_md_to_jsonl.py *)

\* extract_language_and_page: <<>> when the name does not match (ValueError)
extract_language_and_page(f) ==
    IF f.matches THEN Some([language |-> f.language, page |-> f.page]) ELSE None

Chunk(text, id, l, p) == [text |-> text, chunk_id |-> id, language |-> l, page |-> p]

\* (variant) chunk_id counts the empty lines too
RECURSIVE MergeLinesCountingAll(_, _, _)
MergeLinesCountingAll(lines, lp, acc) ==
    IF lines = <<>> THEN acc
    ELSE IF Head(lines) = <<>>
         THEN MergeLinesCountingAll(Tail(lines), lp, [acc EXCEPT !.chunk_id = @ + 1])
         ELSE MergeLinesCountingAll(Tail(lines), lp,
                  [entries |-> Append(acc.entries,
                                      Chunk(Head(lines), acc.chunk_id, lp.language, lp.page)),
                   chunk_id |-> acc.chunk_id + 1])

\* The inner loop of process_md_files: entries and chunk_id after the lines
\* of one file.
RECURSIVE MergeLines(_, _, _)
MergeLines(lines, lp, acc) ==
    IF lines = <<>> THEN acc
    ELSE IF Head(lines) = <<>>
         THEN MergeLines(Tail(lines), lp, acc)
         ELSE MergeLines(Tail(lines), lp,
                  [entries |-> Append(acc.entries,
                                      Chunk(Head(lines), acc.chunk_id, lp.language, lp.page)),
                   chunk_id |-> acc.chunk_id + 1])

\* (variant) a file that is passed over still takes a chunk id
RECURSIVE MergeFilesCountingSkipped(_, _)
MergeFilesCountingSkipped(files, acc) ==
    IF files = <<>> THEN acc
    ELSE LET lp == extract_language_and_page(Head(files))
         IN  IF lp = None
             THEN MergeFilesCountingSkipped(Tail(files),
                                            [acc EXCEPT !.chunk_id = @ + 1])
             ELSE MergeFilesCountingSkipped(Tail(files),
                      MergeLines(Head(files).lines, The(lp), acc))

\* The outer loop of process_md_files over the sorted files.
RECURSIVE MergeFiles(_, _)
MergeFiles(files, acc) ==
    IF files = <<>> THEN acc
    ELSE LET lp == extract_language_and_page(Head(files))
         IN  IF lp = None
             THEN MergeFiles(Tail(files), acc)
             ELSE MergeFiles(Tail(files), MergeLines(Head(files).lines, The(lp), acc))

\* sorted(all_files): by directory name, then by file name.
RECURSIVE AllFiles(_, _)
AllFiles(dirs, names) ==
    IF names = <<>> THEN <<>>
    ELSE (IF Head(names) \in DOMAIN dirs THEN dirs[Head(names)] ELSE <<>>)
         \o AllFiles(dirs, Tail(names))

process_md_files(dirs) ==
    MergeFiles(AllFiles(dirs, LangOrder), [entries |-> <<>>, chunk_id |-> 0]).entries

----------------------------------------------------------------------------
(* Configuration (config.yaml) *)

Config(p, l, k, f) ==
    [IS_PROD |-> p, languages |-> l, keep_all_alignments |-> k, fake_validation |-> f]

\* IS_PROD and languages in every combination; the 'alignment' section as
\* wrapper.py writes it (drop one-sided beads, fake validation) or the opposite.
Configs ==
    {Config(TRUE, None, FALSE, TRUE),
     Config(TRUE, Some([source |-> "en", targets |-> <<"it", "fr">>]), TRUE, FALSE),
     Config(FALSE, None, TRUE, FALSE),
     Config(FALSE, Some([source |-> "en", targets |-> <<"it", "fr">>]), FALSE, TRUE)}

----------------------------------------------------------------------------
(* PDFToJSONLPipeline._detect_languages_from_data *)

source_priority == <<"en", "it", "de", "fr">>

\* Every language code a chunk can carry here, in lexicographic order.
CodeOrder == <<"de", "en", "es", "fr", "it", "pt">>

Codes == {CodeOrder[i] : i \in 1..Len(CodeOrder)}

\* sorted(S) for a set of language codes
Sorted(S) == SelectSeq(CodeOrder, LAMBDA l : l \in S)

\* the first element of seq that is in S, as an optional
RECURSIVE FirstIn(_, _)
FirstIn(seq, S) ==
    IF seq = <<>> THEN None
    ELSE IF Head(seq) \in S THEN Some(Head(seq)) ELSE FirstIn(Tail(seq), S)

\* "if 'language' in entry"
HasLanguage(e) == "language" \in DOMAIN e

\* "for entry in data[:100]", "if len(text) > 20", "detect(text[:200])"
SampleSize == 100

MinDetectLen == 20

DetectPrefix == 200

\* langdetect.detect, seeded: the language of the text when it has one the
\* detector knows, <<>> when it throws.  The language of a text is that of
\* its first word.
Detect(text) ==
    IF text # <<>> /\ text[1][1] \in Codes THEN Some(text[1][1]) ELSE None

\* the keys of lang_samples after the loop over the sample
LangSamples(data) ==
    LET sample == SubSeq(data, 1, IF Len(data) < SampleSize THEN Len(data) ELSE SampleSize)
        text(e) == IF "text" \in DOMAIN e THEN e.text ELSE <<>>
        prefix(t) == SubSeq(t, 1, IF Len(t) < DetectPrefix THEN Len(t) ELSE DetectPrefix)
    IN  {The(Detect(prefix(text(sample[i])))) :
            i \in {j \in 1..Len(sample) :
                      /\ Len(text(sample[j])) > MinDetectLen
                      /\ Detect(prefix(text(sample[j]))) # None}}

\* detected_langs: the 'language' fields of the entries or, when no entry
\* has one, what langdetect makes of the texts.
DetectedLangs(data) ==
    LET fields == {data[i].language : i \in {j \in 1..Len(data) : HasLanguage(data[j])}}
    IN  IF fields # {} THEN fields ELSE LangSamples(data)

\* (variant) the language of the first chunk is the source
detect_first_seen(data) ==
    LET detected_langs == DetectedLangs(data)
        source_lang == IF data # <<>> /\ HasLanguage(data[1]) THEN data[1].language ELSE "en"
    IN  [source |-> source_lang, targets |-> Sorted(detected_langs \ {source_lang})]

detect_languages_from_data(data) ==
    LET detected_langs == DetectedLangs(data)
        prio == FirstIn(source_priority, detected_langs)
        source_lang == IF prio # None THEN The(prio)
                       ELSE IF detected_langs # {} THEN Sorted(detected_langs)[1]
                       ELSE "en"
    IN  [source |-> source_lang, targets |-> Sorted(detected_langs \ {source_lang})]

\* (variant) the configuration is not looked at
ResolveLanguagesDetecting(cfg, data) ==
    [source |-> detect_languages_from_data(data).source,
     targets |-> detect_languages_from_data(data).targets, inferred |-> TRUE]

\* run_bert_alignment, "Get or detect languages"; `inferred` tells which
\* branch was taken
ResolveLanguages(cfg, data) ==
    IF cfg.languages # None
    THEN [source |-> The(cfg.languages).source,
          targets |-> The(cfg.languages).targets, inferred |-> FALSE]
    ELSE [source |-> detect_languages_from_data(data).source,
          targets |-> detect_languages_from_data(data).targets, inferred |-> TRUE]

----------------------------------------------------------------------------
(* The aligner (Bertalign), a black box: for n source and m target         *)
(* sentences it returns a list of beads, or throws.  A bead is a pair of   *)
(* lists of 0-based contiguous sentence positions.                         *)

Bead(s, t) == [src |-> s, tgt |-> t]

Min(a, b) == IF a < b THEN a ELSE b

\* 1-1 beads along the diagonal, then the rest of the longer side one by one
Diagonal(n, m) ==
    [i \in 1..Min(n, m) |-> Bead(<<i - 1>>, <<i - 1>>)]
    \o [i \in 1..(n - Min(n, m)) |-> Bead(<<Min(n, m) + i - 1>>, <<>>)]
    \o [i \in 1..(m - Min(n, m)) |-> Bead(<<>>, <<Min(n, m) + i - 1>>)]

\* The answers considered here: the diagonal one.
AlignerResults(n, m) == {Diagonal(n, m)}

\* the positions a, a+1, .., a+k-1
Positions(a, k) == [i \in 1..k |-> a + i - 1]

\* Every answer the aligner can give for the sentences from i and from j on:
\* beads in order, each taking the next 0..MaxSents sentences of either
\* side (not none of both), together taking every sentence once.
RECURSIVE BeadsFrom(_, _, _, _)
BeadsFrom(i, j, n, m) ==
    IF i = n /\ j = m THEN {<<>>}
    ELSE UNION {{<<Bead(Positions(i, a), Positions(j, b))>> \o rest :
                    rest \in BeadsFrom(i + a, j + b, n, m)} :
                <<a, b>> \in {x \in (0..MaxSents) \X (0..MaxSents) :
                                /\ x[1] + x[2] > 0
                                /\ i + x[1] <= n
                                /\ j + x[2] <= m}}

Partitions(n, m) == BeadsFrom(0, 0, n, m)

----------------------------------------------------------------------------
(* run_bert_alignment: from beads to alignment entries *)

\* seq[a:b] of Python, 0-based, for 0 <= a <= b
Slice(seq, a, b) == SubSeq(seq, a + 1, Min(b, Len(seq)))

\* (variant) only the first sentence of the bead is taken
JoinFirst(texts) == IF texts = <<>> THEN <<>> ELSE Head(texts)

\* ' '.join(texts)
RECURSIVE JoinTexts(_)
JoinTexts(texts) ==
    IF texts = <<>> THEN <<>> ELSE Head(texts) \o JoinTexts(Tail(texts))

Texts(entries) == [i \in 1..Len(entries) |-> entries[i].text]

\* aligner.src_sents, aligner.tgt_sents: the sentence list the aligner
\* indexes into is the list of lines it was handed, one per chunk
Sents(texts) == texts

\* (variant) the slice stops before the last position of the bead
BeadSliceOpen(seq, bead) == Slice(seq, bead[1], bead[Len(bead)])

\* seq[bead[0]:bead[-1]+1]
BeadSlice(seq, bead) == Slice(seq, bead[1], bead[Len(bead)] + 1)

\* One iteration of "for bead in aligner.result": the tuple appended to
\* aligned_pairs.
AlignedPair(bead, src_entries, tgt_entries) ==
    LET src_bead == bead.src
        tgt_bead == bead.tgt
        src_sent == IF Len(src_bead) > 0
                    THEN JoinTexts(BeadSlice(Sents(Texts(src_entries)), src_bead)) ELSE <<>>
        tgt_sent == IF Len(tgt_bead) > 0
                    THEN JoinTexts(BeadSlice(Sents(Texts(tgt_entries)), tgt_bead)) ELSE <<>>
        tup(sent, tent) ==
            [src_sent |-> src_sent, tgt_sent |-> tgt_sent, sent |-> sent,
             tent |-> tent, src_bead |-> src_bead, tgt_bead |-> tgt_bead]
    IN  IF src_bead # <<>> /\ tgt_bead # <<>>
        THEN tup(BeadSlice(src_entries, src_bead), BeadSlice(tgt_entries, tgt_bead))
        ELSE IF src_bead # <<>> THEN tup(BeadSlice(src_entries, src_bead), <<>>)
        ELSE IF tgt_bead # <<>> THEN tup(<<>>, BeadSlice(tgt_entries, tgt_bead))
        ELSE tup(<<>>, <<>>)

AlignedPairs(beads, src_entries, tgt_entries) ==
    [i \in 1..Len(beads) |-> AlignedPair(beads[i], src_entries, tgt_entries)]

\* the dict {}
EmptyDict == [k \in {} |-> None]

\* (variant) the synthetic payload whatever the flag says
ValidationAlways(fake_validation) ==
    Some([is_valid_alignment |-> TRUE, confidence |-> 1, reason |-> "test",
          validation_success |-> TRUE, error |-> None])

\* the validation attached to every entry, as the JSON value written:
\* Some(d) is the object d, None would be null
Validation(fake_validation) ==
    IF fake_validation
    THEN Some([is_valid_alignment |-> TRUE, confidence |-> 1, reason |-> "test",
               validation_success |-> TRUE, error |-> None])
    ELSE Some(EmptyDict)

\* f"{len(src_bead)}-{len(tgt_bead)}"
AlignmentType(p) == ToString(Len(p.src_bead)) \o "-" \o ToString(Len(p.tgt_bead))

\* (variant) one-sided beads are dropped whatever the flag says
KeptBothSides(keep_all_alignments, p) == p.sent # <<>> /\ p.tent # <<>>

\* Filter based on KEEP_ALL_ALIGNMENTS
Kept(keep_all_alignments, p) ==
    keep_all_alignments \/ (p.sent # <<>> /\ p.tent # <<>>)

\* (variant) the count of a type is set to 1 each time
BumpOnce(counts, t) ==
    [x \in DOMAIN counts \cup {t} |-> IF x = t THEN 1 ELSE counts[x]]

\* alignment_type_counts[t] = alignment_type_counts.get(t, 0) + 1
Bump(counts, t) ==
    [x \in DOMAIN counts \cup {t} |->
        IF x = t THEN (IF t \in DOMAIN counts THEN counts[t] ELSE 0) + 1 ELSE counts[x]]

NoCounts == [t \in {} |-> 0]

\* (variant) alignment_id numbers the beads, as pair_id does
AlignmentEntryByBead(p, i, n, cfg, src, tgt) ==
    [alignment_id |-> i, pair_id |-> i,
     src_text |-> p.src_sent, tgt_text |-> p.tgt_sent,
     src_lang |-> src, tgt_lang |-> tgt,
     alignment_type |-> AlignmentType(p),
     src_chunks |-> p.sent, tgt_chunks |-> p.tent,
     validation |-> Validation(cfg.fake_validation)]

\* alignment_entry for the i-th tuple of aligned_pairs (i from 0), n being
\* len(all_alignments)
AlignmentEntry(p, i, n, cfg, src, tgt) ==
    [alignment_id |-> n, pair_id |-> i,
     src_text |-> p.src_sent, tgt_text |-> p.tgt_sent,
     src_lang |-> src, tgt_lang |-> tgt,
     alignment_type |-> AlignmentType(p),
     src_chunks |-> p.sent, tgt_chunks |-> p.tent,
     validation |-> Validation(cfg.fake_validation)]

\* "for i, (...) in enumerate(aligned_pairs)": all_alignments and
\* alignment_type_counts after the pairs i.. of the list
RECURSIVE AlignmentLoop(_, _, _, _, _, _)
AlignmentLoop(pairs, i, cfg, src, tgt, acc) ==
    IF i > Len(pairs) THEN acc
    ELSE LET p == pairs[i]
             entry == AlignmentEntry(p, i - 1, Len(acc.all), cfg, src, tgt)
         IN  IF Kept(cfg.keep_all_alignments, p)
             THEN AlignmentLoop(pairs, i + 1, cfg, src, tgt,
                      [all |-> Append(acc.all, entry),
                       counts |-> Bump(acc.counts, AlignmentType(p))])
             ELSE AlignmentLoop(pairs, i + 1, cfg, src, tgt, acc)

\* all_alignments and alignment_type_counts of one language pair
BuildAlignments(beads, cfg, src, tgt, src_entries, tgt_entries) ==
    AlignmentLoop(AlignedPairs(beads, src_entries, tgt_entries), 1, cfg, src, tgt,
                  [all |-> <<>>, counts |-> NoCounts])

\* the metadata_{src}-{tgt}.json of one pair
Metadata(experiment_id, src, tgt, built, cfg, n, m, nbeads) ==
    [experiment_id |-> experiment_id, timestamp |-> experiment_id,
     language_pair |-> <<src, tgt>>, data_file |-> AlignedKey(src, tgt),
     total_aligned_pairs |-> Len(built.all),
     alignment_statistics |-> [src_lines |-> n, tgt_lines |-> m, aligned_pairs |-> nbeads],
     alignment_type_distribution |-> built.counts,
     keep_all_alignments |-> cfg.keep_all_alignments]

EntriesOf(data, l) == SelectSeq(data, LAMBDA e : e.language = l)


----------------------------------------------------------------------------
(* State *)

Stages == {"PDF_CONVERT", "MERGE", "ALIGN", "CONSOLIDATE"}

NoResults == [s \in Stages |-> "none"]

RunIdle ==
    [stage |-> "IDLE", skip |-> FALSE, align |-> FALSE, started |-> <<>>,
     res |-> NoResults, result |-> "none"]

AlOff ==
    [pc |-> "off", data |-> <<>>, src |-> "", tgts |-> <<>>, inferred |-> FALSE,
     idx |-> 0, exp |-> 0, beads |-> None, metadata |-> None,
     done |-> <<>>, skipped |-> <<>>, ret |-> "none", at |-> "none"]

PmOff ==
    [pc |-> "off", idx |-> 0, language_src |-> None, language_tgt |-> <<>>,
     ret |-> "none", at |-> "none", before |-> None, prev |-> None]

InstNew ==
    [detected_language_src |-> None, detected_language_tgt |-> None,
     last_experiment_dir |-> None]

NoExps == [e \in {} |-> EmptyDir]

\* PDFToJSONLPipeline.__init__, on some data directory
Init ==
    /\ config \in Configs
    /\ clock = 0
    /\ mdDirs \in DocSets
    /\ deliv = EmptyDir
    /\ expDir = FALSE
    /\ srcFile = None
    /\ exps = NoExps
    /\ inst = InstNew
    /\ run = RunIdle
    /\ al = AlOff
    /\ pm = PmOff
    /\ calls = 0
    /\ hist = [last |-> "none", clean |-> FALSE]
    /\ vd = None /\ sp = None /\ wr = None

\* no call on the object is in progress
Idle ==
    /\ run.stage \in {"IDLE", "DONE"}
    /\ al.pc \in {"off", "ret"}
    /\ pm.pc \in {"off", "ret"}

----------------------------------------------------------------------------
(* run_full_pipeline: what follows each stage *)

Started(r, s) == [r EXCEPT !.started = Append(@, s)]

Finish(r, s, out, result) ==
    [r EXCEPT !.stage = "DONE", !.res[s] = out, !.result = result]

Goto(r, s, out, next) == [r EXCEPT !.stage = next, !.res[s] = out]

\* the call itself: Step 1 is entered unless skip_pdf_conversion
Enter(skip, align) ==
    [RunIdle EXCEPT !.stage = IF skip THEN "MERGE" ELSE "PDF_CONVERT",
                    !.skip = skip, !.align = align]

\* "if not self.run_pdf_to_markdown(): return False"
AfterPdf(r, out) ==
    IF out = "ok" THEN Goto(r, "PDF_CONVERT", out, "MERGE")
    ELSE Finish(r, "PDF_CONVERT", out, out)

\* (variant) the merge result is not looked at
AfterMergeUnchecked(r, out) ==
    Goto(r, "MERGE", out, IF r.align THEN "ALIGN" ELSE "CONSOLIDATE")

\* "if not self.run_merge_to_jsonl(...): return False", then "if run_alignment:"
AfterMerge(r, out) ==
    IF out = "ok"
    THEN Goto(r, "MERGE", out, IF r.align THEN "ALIGN" ELSE "CONSOLIDATE")
    ELSE Finish(r, "MERGE", out, out)

\* (variant) a failed alignment is only a warning
AfterAlignLenient(r, out) ==
    IF out = "raised" THEN Finish(r, "ALIGN", out, out)
    ELSE Goto(r, "ALIGN", out, "CONSOLIDATE")

\* (variant) a failed alignment is tried again
AfterAlignRetrying(r, out) ==
    IF out = "ok" THEN Goto(r, "ALIGN", out, "CONSOLIDATE")
    ELSE IF out = "fail" THEN [r EXCEPT !.stage = "ALIGN"]
    ELSE Finish(r, "ALIGN", out, out)

\* "if not self.run_bert_alignment(): return False"; an exception goes through
AfterAlign(r, out) ==
    IF out = "ok" THEN Goto(r, "ALIGN", out, "CONSOLIDATE")
    ELSE Finish(r, "ALIGN", out, out)

\* (variant) a failed consolidation fails the run
AfterProdFatal(r, out) == Finish(r, "CONSOLIDATE", out, out)

\* "if not self.apply_production_mode(): (warning)", then "return True"
AfterProd(r, out) == Finish(r, "CONSOLIDATE", out, "ok")

StartRun ==
    /\ Idle
    /\ calls < MaxCalls
    /\ \E skip \in BOOLEAN, align \in BOOLEAN : run' = Enter(skip, align)
    /\ calls' = calls + 1
    /\ al' = AlOff
    /\ pm' = PmOff
    /\ UNCHANGED <<config, clock, mdDirs, deliv, expDir, srcFile, exps, inst, hist>>
    /\ UNCHANGED <<vd, sp, wr>>

\* time passes between two calls (the clock is only read by a call)
Tick ==
    /\ Idle
    /\ calls > 0
    /\ calls < MaxCalls
    /\ clock < MaxClock
    /\ clock' = clock + 1
    /\ UNCHANGED <<config, mdDirs, deliv, expDir, srcFile, exps,
                   inst, run, al, pm, calls, hist>>
    /\ UNCHANGED <<vd, sp, wr>>

----------------------------------------------------------------------------
(* run_pdf_to_markdown: the six conversion steps, seen from the pipeline.  *)
(* When all succeed, the PDFs found under data_dir have become md folders; *)
(* md folders that were there stay as they are.                            *)

Converted(dirs) ==
    {d \in DocSets : \A l \in DOMAIN dirs : l \in DOMAIN d /\ d[l] = dirs[l]}

PdfToMarkdown ==
    /\ run.stage = "PDF_CONVERT"
    /\ \E out \in {"ok", "fail"} :
        /\ IF out = "ok" THEN mdDirs' \in Converted(mdDirs) ELSE mdDirs' = mdDirs
        /\ run' = AfterPdf(Started(run, "PDF_CONVERT"), out)
    /\ hist' = [last |-> "pdf", clean |-> FALSE]
    /\ UNCHANGED <<config, clock, deliv, expDir, srcFile, exps,
                   inst, al, pm, calls>>
    /\ UNCHANGED <<vd, sp, wr>>

----------------------------------------------------------------------------
(* run_merge_to_jsonl: merge_md_to_jsonl.py as a subprocess *)

\* (variant) the corpus file is written even when there is no folder
merge_main_writing(dirs, old) == Some(File(process_md_files(dirs)))

\* main() of the script: the corpus file it leaves, given the one there was
merge_main(dirs, old) ==
    IF DOMAIN dirs = {} THEN old ELSE Some(File(process_md_files(dirs)))

\* The effect of the call with outcome out: exit status 0 is "ok", a
\* CalledProcessError "fail" (the script died before writing).
RunMerge(out) ==
    /\ srcFile' = IF out = "ok" THEN merge_main(mdDirs, srcFile) ELSE srcFile
    /\ expDir' = (expDir \/ (out = "ok" /\ DOMAIN mdDirs # {}))
    /\ hist' = [last |-> "merge", clean |-> FALSE]
    /\ al' = AlOff
    /\ pm' = PmOff
    /\ UNCHANGED <<config, clock, mdDirs, deliv, exps, inst>>

MergeToJsonl ==
    /\ run.stage = "MERGE"
    /\ \E out \in {"ok", "fail"} :
        /\ RunMerge(out)
        /\ run' = AfterMerge(Started(run, "MERGE"), out)
    /\ UNCHANGED calls
    /\ UNCHANGED <<vd, sp, wr>>

\* run_merge_to_jsonl called on its own (as wrapper.py does)
CallMerge ==
    /\ Idle
    /\ calls < MaxCalls
    /\ \E out \in {"ok", "fail"} : RunMerge(out)
    /\ calls' = calls + 1
    /\ run' = RunIdle
    /\ UNCHANGED <<vd, sp, wr>>


----------------------------------------------------------------------------
(* run_bert_alignment *)

\* the method returns out (or raises) at the place `at`
AlignReturn(a, out, at) ==
    /\ al' = [a EXCEPT !.pc = "ret", !.ret = out, !.at = at,
                       !.data = <<>>, !.beads = None, !.metadata = None]
    /\ run' = IF run.stage = "ALIGN" THEN AfterAlign(run, out) ELSE run
    /\ hist' = [last |-> "align", clean |-> FALSE]

\* "Step 3", entered from run_full_pipeline
BeginAlign ==
    /\ run.stage = "ALIGN"
    /\ al.pc \in {"off", "ret"}
    /\ pm.pc \in {"off", "ret"}
    /\ al' = [AlOff EXCEPT !.pc = "load"]
    /\ run' = Started(run, "ALIGN")
    /\ hist' = [last |-> "align", clean |-> FALSE]
    /\ UNCHANGED <<config, clock, mdDirs, deliv, expDir, srcFile, exps,
                   inst, pm, calls>>
    /\ UNCHANGED <<vd, sp, wr>>

\* run_bert_alignment called on its own (as wrapper.py does)
CallAlign ==
    /\ Idle
    /\ calls < MaxCalls
    /\ al' = [AlOff EXCEPT !.pc = "load"]
    /\ pm' = PmOff
    /\ run' = RunIdle
    /\ calls' = calls + 1
    /\ hist' = [last |-> "align", clean |-> FALSE]
    /\ UNCHANGED <<config, clock, mdDirs, deliv, expDir, srcFile, exps, inst>>
    /\ UNCHANGED <<vd, sp, wr>>

\* output_dir.mkdir(parents=True, exist_ok=True)
Mkdir(es, id) == IF id \in DOMAIN es THEN es ELSE Put(es, id, EmptyDir)

\* From the import of bertalign, which succeeds or not, to the check of the
\* source entries; e['language'] is a KeyError for an entry without the field.
AlignLoad ==
    /\ al.pc = "load"
    /\ \E imported \in BOOLEAN :
       IF ~imported
       THEN /\ AlignReturn(al, "fail", "import")
            /\ UNCHANGED <<inst, exps>>
       ELSE IF srcFile = None
       THEN /\ AlignReturn(al, "fail", "nofile")
            /\ UNCHANGED <<inst, exps>>
       ELSE LET data == The(srcFile).body
                plan == ResolveLanguages(config, data)
                a == [al EXCEPT !.data = data, !.src = plan.source,
                                !.tgts = plan.targets, !.inferred = plan.inferred,
                                !.exp = clock, !.idx = 1]
            IN  /\ inst' = [inst EXCEPT
                               !.detected_language_src = Some(plan.source),
                               !.detected_language_tgt = Some(plan.targets)]
                /\ exps' = Mkdir(exps, clock)
                /\ IF \E i \in 1..Len(data) : ~HasLanguage(data[i])
                   THEN AlignReturn(a, "raised", "keyerror")
                   ELSE IF EntriesOf(data, plan.source) = <<>>
                   THEN AlignReturn(a, "fail", "nosrc")
                   ELSE /\ al' = [a EXCEPT !.pc = "pair"]
                        /\ UNCHANGED <<run, hist>>
    /\ UNCHANGED <<config, clock, mdDirs, deliv, expDir, srcFile, calls, pm>>
    /\ UNCHANGED <<vd, sp, wr>>

\* (variant) "return False" in place of "continue"
AlignSkipFailing ==
    /\ al.pc = "pair"
    /\ al.idx <= Len(al.tgts)
    /\ EntriesOf(al.data, al.tgts[al.idx]) = <<>>
    /\ AlignReturn([al EXCEPT !.skipped = Append(@, al.tgts[al.idx])], "fail", "skip")
    /\ UNCHANGED <<config, clock, mdDirs, deliv, expDir, srcFile, exps,
                   inst, pm, calls>>
    /\ UNCHANGED <<vd, sp, wr>>

\* "if not tgt_entries: ... continue"
AlignSkip ==
    /\ al.pc = "pair"
    /\ al.idx <= Len(al.tgts)
    /\ EntriesOf(al.data, al.tgts[al.idx]) = <<>>
    /\ al' = [al EXCEPT !.idx = @ + 1, !.skipped = Append(@, al.tgts[al.idx])]
    /\ UNCHANGED <<config, clock, mdDirs, deliv, expDir, srcFile, exps,
                   inst, run, pm, calls, hist>>
    /\ UNCHANGED <<vd, sp, wr>>

\* The aligner throws: nothing in run_bert_alignment catches it.
AlignerThrows ==
    /\ al.pc = "pair"
    /\ al.idx <= Len(al.tgts)
    /\ EntriesOf(al.data, al.tgts[al.idx]) # <<>>
    /\ AlignReturn(al, "raised", "aligner")
    /\ UNCHANGED <<config, clock, mdDirs, deliv, expDir, srcFile, exps,
                   inst, pm, calls>>
    /\ UNCHANGED <<vd, sp, wr>>

\* (variant) the metadata file is written where the aligned file should be
WriteMetadataFirst(beads) ==
    LET lang_tgt == al.tgts[al.idx]
        src_entries == EntriesOf(al.data, al.src)
        tgt_entries == EntriesOf(al.data, lang_tgt)
        built == BuildAlignments(beads, config, al.src, lang_tgt,
                                 src_entries, tgt_entries)
        meta == Metadata(al.exp, al.src, lang_tgt, built, config,
                         Len(src_entries), Len(tgt_entries), Len(beads))
    IN  /\ exps' = [exps EXCEPT ![al.exp] =
                       Put(@, MetadataKey(al.src, lang_tgt), File(meta))]
        /\ al' = [al EXCEPT !.pc = "meta", !.beads = Some(beads),
                            !.metadata = Some(meta)]

\* "Process aligned pairs" to "Writing ... aligned pairs": from the beads
\* of the current pair the entries are built and its aligned file written.
WriteAligned(beads) ==
    LET lang_tgt == al.tgts[al.idx]
        src_entries == EntriesOf(al.data, al.src)
        tgt_entries == EntriesOf(al.data, lang_tgt)
        built == BuildAlignments(beads, config, al.src, lang_tgt,
                                 src_entries, tgt_entries)
        meta == Metadata(al.exp, al.src, lang_tgt, built, config,
                         Len(src_entries), Len(tgt_entries), Len(beads))
    IN  /\ exps' = [exps EXCEPT ![al.exp] =
                       Put(@, AlignedKey(al.src, lang_tgt), File(built.all))]
        /\ al' = [al EXCEPT !.pc = "meta", !.beads = Some(beads),
                            !.metadata = Some(meta)]

\* The aligner returns its beads; the entries are built and the aligned
\* file of the pair is written.
AlignPair ==
    /\ al.pc = "pair"
    /\ al.idx <= Len(al.tgts)
    /\ EntriesOf(al.data, al.tgts[al.idx]) # <<>>
    /\ \E beads \in AlignerResults(Len(EntriesOf(al.data, al.src)),
                                    Len(EntriesOf(al.data, al.tgts[al.idx]))) :
          WriteAligned(beads)
    /\ UNCHANGED <<config, clock, mdDirs, deliv, expDir, srcFile,
                   inst, run, pm, calls, hist>>
    /\ UNCHANGED <<vd, sp, wr>>

\* The same with any answer the aligner can give.
AlignAny ==
    /\ al.pc = "pair"
    /\ al.idx <= Len(al.tgts)
    /\ EntriesOf(al.data, al.tgts[al.idx]) # <<>>
    /\ \E beads \in Partitions(Len(EntriesOf(al.data, al.src)),
                                Len(EntriesOf(al.data, al.tgts[al.idx]))) :
          WriteAligned(beads)
    /\ UNCHANGED <<config, clock, mdDirs, deliv, expDir, srcFile,
                   inst, run, pm, calls, hist>>
    /\ UNCHANGED <<vd, sp, wr>>

\* "Save metadata", the end of the loop body
AlignMeta ==
    /\ al.pc = "meta"
    /\ exps' = [exps EXCEPT ![al.exp] =
                   Put(@, MetadataKey(al.src, al.tgts[al.idx]), File(The(al.metadata)))]
    /\ al' = [al EXCEPT !.pc = "pair", !.idx = @ + 1, !.metadata = None,
                        !.beads = None, !.done = Append(@, al.tgts[al.idx])]
    /\ UNCHANGED <<config, clock, mdDirs, deliv, expDir, srcFile,
                   inst, run, pm, calls, hist>>
    /\ UNCHANGED <<vd, sp, wr>>

\* after the loop: self.last_experiment_dir = output_dir; return True
AlignFinish ==
    /\ al.pc = "pair"
    /\ al.idx > Len(al.tgts)
    /\ inst' = [inst EXCEPT !.last_experiment_dir = Some(al.exp)]
    /\ AlignReturn(al, "ok", "end")
    /\ UNCHANGED <<config, clock, mdDirs, deliv, expDir, srcFile, exps,
                   pm, calls>>
    /\ UNCHANGED <<vd, sp, wr>>


----------------------------------------------------------------------------
(* apply_production_mode *)

\* How a copy2 or rmtree can end: done, or with an OSError.
IoOutcomes == {"ok", "error"}

\* the places where the method returns because of an I/O error
IoErrorPlaces == {"copy_chunks", "copy_aligned", "rmtree", "rm_md"}

\* (variant) a destination that exists is not overwritten
Copy2KeepingOld(dir, key, file, io) ==
    IF key \in DOMAIN dir THEN dir
    ELSE IF io = "ok" THEN Put(dir, key, file) ELSE Put(dir, key, Truncated)

\* dir after shutil.copy2(file, dir/key) ending as io: an error leaves a
\* truncated destination
Copy2(dir, key, file, io) ==
    IF io = "ok" THEN Put(dir, key, file) ELSE Put(dir, key, Truncated)

\* the method returns out at the place `at`
ProdReturn(p, out, at) ==
    /\ pm' = [p EXCEPT !.pc = "ret", !.ret = out, !.at = at]
    /\ run' = IF run.stage = "CONSOLIDATE" THEN AfterProd(run, out) ELSE run
    /\ hist' = [last |-> "prod", clean |-> at \notin IoErrorPlaces]

\* self.last_experiment_dir, when it is set and exists
LastExperiment ==
    IF inst.last_experiment_dir # None /\ The(inst.last_experiment_dir) \in DOMAIN exps
    THEN inst.last_experiment_dir ELSE None

\* The call begins.  `before` remembers the experiments directory as the call
\* found it, `prev` the deliverable directory if the call follows directly on
\* a consolidation that met no I/O error.
ProdEntered ==
    [PmOff EXCEPT
        !.pc = "start",
        !.before = Some([srcFile |-> srcFile, exps |-> exps, expDir |-> expDir,
                         last |-> LastExperiment]),
        !.prev = IF hist.last = "prod" /\ hist.clean THEN Some(deliv) ELSE None]

\* "Step 4", entered from run_full_pipeline
BeginProd ==
    /\ run.stage = "CONSOLIDATE"
    /\ al.pc \in {"off", "ret"}
    /\ pm.pc \in {"off", "ret"}
    /\ pm' = ProdEntered
    /\ al' = AlOff
    /\ run' = Started(run, "CONSOLIDATE")
    /\ hist' = [last |-> "prod", clean |-> FALSE]
    /\ UNCHANGED <<config, clock, mdDirs, deliv, expDir, srcFile, exps, inst, calls>>
    /\ UNCHANGED <<vd, sp, wr>>

\* apply_production_mode called on its own (as wrapper.py does)
CallProd ==
    /\ Idle
    /\ calls < MaxCalls
    /\ pm' = ProdEntered
    /\ al' = AlOff
    /\ run' = RunIdle
    /\ calls' = calls + 1
    /\ hist' = [last |-> "prod", clean |-> FALSE]
    /\ UNCHANGED <<config, clock, mdDirs, deliv, expDir, srcFile, exps, inst>>
    /\ UNCHANGED <<vd, sp, wr>>

\* "if not is_prod: return True"
ProdCheck ==
    /\ pm.pc = "start"
    /\ IF ~config.IS_PROD
       THEN ProdReturn(pm, "ok", "noop")
       ELSE /\ pm' = [pm EXCEPT !.pc = "chunks"]
            /\ UNCHANGED <<run, hist>>
    /\ UNCHANGED <<config, clock, mdDirs, deliv, expDir, srcFile, exps,
                   inst, al, calls>>
    /\ UNCHANGED <<vd, sp, wr>>

\* (variant) step 2 is never entered
AfterChunksPastStep2(p) == [p EXCEPT !.pc = "rm_exp"]

\* Where step 2 leads: into the loop over the target languages when the last
\* experiment exists, and past it (language_src never assigned) when not.
AfterChunks(p) ==
    IF LastExperiment = None THEN [p EXCEPT !.pc = "rm_exp"]
    ELSE LET tgt == IF inst.detected_language_tgt = None THEN <<>>
                    ELSE The(inst.detected_language_tgt)
         IN  [p EXCEPT !.language_src = inst.detected_language_src,
                       !.language_tgt = tgt, !.idx = 1,
                       !.pc = IF tgt = <<>> THEN "rm_exp" ELSE "aligned"]

\* (variant) chunks.jsonl is opened for writing before the source is looked for
CopyChunksUnguarded(dir, src, io) ==
    IF src = None THEN Put(dir, ChunksKey, Truncated)
    ELSE Copy2(dir, ChunksKey, The(src), io)

\* "if source_data_file.exists(): shutil.copy2(source_data_file, chunks_file)"
CopyChunks(dir, src, io) ==
    IF src = None THEN dir ELSE Copy2(dir, ChunksKey, The(src), io)

\* "1. Copy and rename chunks.jsonl", then the test that opens step 2
ProdCopyChunks ==
    /\ pm.pc = "chunks"
    /\ \E io \in IF srcFile = None THEN {"ok"} ELSE IoOutcomes :
        /\ deliv' = CopyChunks(deliv, srcFile, io)
        /\ IF io # "ok" THEN ProdReturn(pm, "fail", "copy_chunks")
           ELSE IF LastExperiment # None /\ inst.detected_language_src = None
           THEN ProdReturn(pm, "ok", "nolang")
           ELSE /\ pm' = AfterChunks(pm)
                /\ UNCHANGED <<run, hist>>
    /\ UNCHANGED <<config, clock, mdDirs, expDir, srcFile, exps,
                   inst, al, calls>>
    /\ UNCHANGED <<vd, sp, wr>>

\* "2. Find and move aligned files": one iteration of the loop
ProdCopyAligned ==
    /\ pm.pc = "aligned"
    /\ LET lang_tgt == pm.language_tgt[pm.idx]
           dir == exps[The(LastExperiment)]
           key == AlignedKey(The(pm.language_src), lang_tgt)
           found == key \in DOMAIN dir
       IN  \E io \in IF found THEN IoOutcomes ELSE {"ok"} :
            /\ deliv' = IF found
                        THEN Copy2(deliv, PairKey(The(pm.language_src), lang_tgt),
                                   dir[key], io)
                        ELSE deliv
            /\ IF io # "ok" THEN ProdReturn(pm, "fail", "copy_aligned")
               ELSE /\ pm' = [pm EXCEPT !.idx = @ + 1,
                                 !.pc = IF pm.idx = Len(pm.language_tgt)
                                        THEN "rm_exp" ELSE "aligned"]
                    /\ UNCHANGED <<run, hist>>
    /\ UNCHANGED <<config, clock, mdDirs, expDir, srcFile, exps,
                   inst, al, calls>>
    /\ UNCHANGED <<vd, sp, wr>>

\* (variant) only the experiment just produced is removed
ProdRmLastExperiment ==
    /\ pm.pc = "rm_exp"
    /\ exps' = [e \in DOMAIN exps \ {x \in DOMAIN exps : LastExperiment = Some(x)} |->
                   exps[e]]
    /\ pm' = [pm EXCEPT !.pc = "rm_md"]
    /\ UNCHANGED <<config, clock, mdDirs, deliv, inst, al, calls,
                   run, hist, expDir, srcFile>>
    /\ UNCHANGED <<vd, sp, wr>>

\* "3. Remove experiments directory"
ProdRmExp ==
    /\ pm.pc = "rm_exp"
    /\ \E io \in IF expDir THEN IoOutcomes ELSE {"ok"} :
        IF io = "ok"
        THEN /\ expDir' = FALSE
             /\ srcFile' = None
             /\ exps' = NoExps
             /\ pm' = [pm EXCEPT !.pc = "rm_md"]
             /\ UNCHANGED <<run, hist>>
        ELSE /\ ProdReturn(pm, "fail", "rmtree")
             /\ UNCHANGED <<expDir, srcFile, exps>>
    /\ UNCHANGED <<config, clock, mdDirs, deliv, inst, al, calls>>
    /\ UNCHANGED <<vd, sp, wr>>

\* "4. Remove markdown folders", then the closing messages: the last one
\* formats language_src, which is unbound if step 2 was passed over
\* (UnboundLocalError, caught by "except Exception").
ProdRmMd ==
    /\ pm.pc = "rm_md"
    /\ \E io \in IF DOMAIN mdDirs # {} THEN IoOutcomes ELSE {"ok"} :
        IF io = "ok"
        THEN /\ mdDirs' = NoDirs
             /\ IF pm.language_src = None
                THEN ProdReturn(pm, "fail", "print")
                ELSE ProdReturn(pm, "ok", "end")
        ELSE /\ ProdReturn(pm, "fail", "rm_md")
             /\ UNCHANGED mdDirs
    /\ UNCHANGED <<config, clock, deliv, expDir, srcFile, exps,
                   inst, al, calls>>
    /\ UNCHANGED <<vd, sp, wr>>

----------------------------------------------------------------------------

Next ==
    \/ StartRun
    \/ Tick
    \/ PdfToMarkdown
    \/ MergeToJsonl
    \/ CallMerge
    \/ BeginAlign
    \/ CallAlign
    \/ AlignLoad
    \/ AlignSkip
    \/ AlignerThrows
    \/ AlignPair
    \/ AlignMeta
    \/ AlignFinish
    \/ BeginProd
    \/ CallProd
    \/ ProdCheck
    \/ ProdCopyChunks
    \/ ProdCopyAligned
    \/ ProdRmExp
    \/ ProdRmMd

Spec == Init /\ [][Next]_vars

----------------------------------------------------------------------------
(* Language resolution on its own: run_bert_alignment up to its language   *)
(* plan, on a corpus file of any content (run_merge_to_jsonl writes the    *)
(* 'language' field only if metadata_fields names it) and any 'languages'  *)
(* section.                                                                *)

Reverse(seq) == [i \in 1..Len(seq) |-> seq[Len(seq) + 1 - i]]

\* one chunk per language of seq, in that order
CorpusOf(seq) == [i \in 1..Len(seq) |-> Chunk(Text(seq[i], i), i - 1, seq[i], 1)]

\* a text of n words in language l
LongText(l, n) == [i \in 1..n |-> <<l, i>>]

\* chunks written without the 'language' field: a short text, long ones in
\* two languages, and a long one langdetect can make nothing of
Fieldless ==
    {[text |-> LongText("en", 1), chunk_id |-> 0],
     [text |-> LongText("en", MinDetectLen + 1), chunk_id |-> 0],
     [text |-> LongText("pt", MinDetectLen + 1), chunk_id |-> 0],
     [text |-> LongText("??", MinDetectLen + 1), chunk_id |-> 0]}

LangCorpora ==
    {CorpusOf(Sorted(S)) : S \in SUBSET Codes}
    \cup {CorpusOf(Reverse(Sorted(S))) : S \in SUBSET Codes}
    \cup {<<e>> : e \in Fieldless}
    \cup {<<e, f>> : e \in Fieldless, f \in Fieldless}

Languages(s, t) == Some([source |-> s, targets |-> t])

LangConfigs ==
    {Config(FALSE, None, FALSE, TRUE),
     Config(FALSE, Languages("en", <<"it", "fr">>), FALSE, TRUE),
     Config(FALSE, Languages("fr", <<"it", "fr", "it">>), FALSE, TRUE),
     Config(FALSE, Languages("pt", <<>>), FALSE, TRUE)}

InitLang ==
    /\ config \in LangConfigs
    /\ clock = 0
    /\ mdDirs = NoDirs
    /\ deliv = EmptyDir
    /\ expDir = TRUE
    /\ srcFile \in {Some(File(c)) : c \in LangCorpora}
    /\ exps = NoExps
    /\ inst = InstNew
    /\ run = RunIdle
    /\ al = AlOff
    /\ pm = PmOff
    /\ calls = 0
    /\ hist = [last |-> "merge", clean |-> FALSE]
    /\ vd = None /\ sp = None /\ wr = None

NextLang ==
    \/ CallAlign
    \/ AlignLoad

SpecLang == InitLang /\ [][NextLang]_vars

----------------------------------------------------------------------------
(* The alignment of one language pair on its own: run_bert_alignment on a  *)
(* corpus of n source and m target chunks, with every answer of the        *)
(* aligner and every 'alignment' section.                                  *)

\* n chunks in en and m in it, page by page: the en chunk of a page, then
\* its it chunk
RECURSIVE PairCorpus(_, _, _)
PairCorpus(n, m, k) ==
    IF k > n /\ k > m THEN <<>>
    ELSE LET rest == PairCorpus(n, m, k + 1)
             id == (IF k - 1 < n THEN k - 1 ELSE n) + (IF k - 1 < m THEN k - 1 ELSE m)
             en == IF k <= n THEN <<Chunk(Text("en", k), id, "en", k)>> ELSE <<>>
             it == IF k <= m THEN <<Chunk(Text("it", k), id + Len(en), "it", k)>> ELSE <<>>
         IN  en \o it \o rest

BeadCorpora == {PairCorpus(n, m, 1) : n \in 1..MaxSents, m \in 1..MaxSents}

\* keep_all_alignments either way, fake_validation the opposite
BeadConfigs ==
    {Config(FALSE, Languages("en", <<"it">>), k, ~k) : k \in BOOLEAN}

InitBeads ==
    /\ config \in BeadConfigs
    /\ clock = 0
    /\ mdDirs = NoDirs
    /\ deliv = EmptyDir
    /\ expDir = TRUE
    /\ srcFile \in {Some(File(c)) : c \in BeadCorpora}
    /\ exps = NoExps
    /\ inst = InstNew
    /\ run = RunIdle
    /\ al = AlOff
    /\ pm = PmOff
    /\ calls = 0
    /\ hist = [last |-> "merge", clean |-> FALSE]
    /\ vd = None /\ sp = None /\ wr = None

NextBeads ==
    \/ CallAlign
    \/ AlignLoad
    \/ AlignAny
    \/ AlignMeta
    \/ AlignFinish

SpecBeads == InitBeads /\ [][NextBeads]_vars

----------------------------------------------------------------------------
(* The pipeline on a data directory where an earlier process has left an   *)
(* experiment: IS_PROD set, the corpus and the old experiment on disk.     *)

InitProd ==
    /\ config \in {c \in Configs : c.IS_PROD}
    /\ clock = 0
    /\ mdDirs \in DocSets
    /\ deliv = EmptyDir
    /\ expDir = TRUE
    /\ srcFile = Some(File(process_md_files(MkDocs({"en", "it"}))))
    /\ exps = [e \in {-1} |-> Put(EmptyDir, AlignedKey("en", "it"), File(<<>>))]
    /\ inst = InstNew
    /\ run = RunIdle
    /\ al = AlOff
    /\ pm = PmOff
    /\ calls = 0
    /\ hist = [last |-> "none", clean |-> FALSE]
    /\ vd = None /\ sp = None /\ wr = None

SpecProd == InitProd /\ [][Next]_vars

----------------------------------------------------------------------------
(* The merge on its own: run_merge_to_jsonl on any markdown folders.       *)

\* the i-th line of the f-th file of folder l
LineText(l, f, i) == << <<l, f, i>> >>

\* The f-th md file of folder l, of one of five kinds: a name that does
\* not match the pattern, or page f with no line, one text line, an empty
\* line and a text line, or two text lines with an empty line between.
FileKinds == {"stray", "empty", "text", "blank-text", "text-blank-text"}

FileOf(kind, l, f) ==
    [matches |-> kind # "stray", language |-> IF kind = "stray" THEN "" ELSE l,
     page |-> f,
     lines |-> CASE kind = "stray" -> <<LineText(l, f, 1)>>
                 [] kind = "empty" -> <<>>
                 [] kind = "text" -> <<LineText(l, f, 1)>>
                 [] kind = "blank-text" -> <<<<>>, LineText(l, f, 2)>>
                 [] kind = "text-blank-text" ->
                        <<LineText(l, f, 1), <<>>, LineText(l, f, 3)>>]

\* the folders of 1..MaxFiles files of folder l, files in name order
FoldersOf(l) ==
    UNION {{[f \in 1..n |-> FileOf(kinds[f], l, f)] : kinds \in [1..n -> FileKinds]} :
           n \in 1..MaxFiles}

\* data_dir with the folders en and it, each there or not
MergeDocSets ==
    {NoDirs}
    \cup {[l \in {"en"} |-> d] : d \in FoldersOf("en")}
    \cup {[l \in {"it"} |-> d] : d \in FoldersOf("it")}
    \cup {[l \in {"en", "it"} |-> IF l = "en" THEN d ELSE e] :
              d \in FoldersOf("en"), e \in FoldersOf("it")}

InitMerge ==
    /\ config \in {Config(FALSE, None, FALSE, TRUE)}
    /\ clock = 0
    /\ mdDirs \in MergeDocSets
    /\ deliv = EmptyDir
    /\ expDir = FALSE
    /\ srcFile = None
    /\ exps = NoExps
    /\ inst = InstNew
    /\ run = RunIdle
    /\ al = AlOff
    /\ pm = PmOff
    /\ calls = 0
    /\ hist = [last |-> "none", clean |-> FALSE]
    /\ vd = None /\ sp = None /\ wr = None

NextMerge == CallMerge

SpecMerge == InitMerge /\ [][NextMerge]_vars


----------------------------------------------------------------------------
(* Properties *)

StageOrder == <<"PDF_CONVERT", "MERGE", "ALIGN", "CONSOLIDATE", "DONE">>

Ord(s) == CHOOSE i \in 1..Len(StageOrder) : StageOrder[i] = s

InSeq(x, seq) == \E i \in 1..Len(seq) : seq[i] = x

AlActive == al.pc \in {"load", "pair", "meta"}

PmActive == pm.pc \in {"start", "chunks", "aligned", "rm_exp", "rm_md"}

\* C1: when PDF_CONVERT or MERGE has reported failure, the run is over with
\* result failure, that stage is the last one that was started, and neither
\* the alignment nor the consolidation is running.
C1_FatalFailureStops ==
    \A s \in {"PDF_CONVERT", "MERGE"} :
        run.res[s] = "fail" =>
            /\ run.stage = "DONE"
            /\ run.result = "fail"
            /\ run.started # <<>>
            /\ run.started[Len(run.started)] = s
            /\ ~AlActive
            /\ ~PmActive

C1_Witness ==
    /\ run.stage = "DONE"
    /\ run.started = <<"PDF_CONVERT", "MERGE">>
    /\ run.res["MERGE"] = "fail"
    /\ run.align

\* C2: a failed ALIGN stage ends the run with result failure and
\* CONSOLIDATE is not started; ALIGN is started only in a run that asked for
\* alignment, so without the request it has no result.
C2_AlignFailureFatalIfRequested ==
    /\ run.res["ALIGN"] = "fail" =>
          /\ run.align
          /\ run.stage = "DONE"
          /\ run.result = "fail"
          /\ ~InSeq("CONSOLIDATE", run.started)
          /\ ~PmActive
    /\ ~run.align => (~InSeq("ALIGN", run.started) /\ run.res["ALIGN"] = "none")
    /\ (run.stage \notin {"IDLE", "DONE"} /\ ~run.align) => ~AlActive

C2_Witness ==
    /\ run.stage = "DONE"
    /\ run.align
    /\ run.res["ALIGN"] = "fail"
    /\ run.res["MERGE"] = "ok"

FatalStages == {"PDF_CONVERT", "MERGE", "ALIGN"}

\* C3: a run that returns returns True exactly when no fatal stage that ran
\* (PDF_CONVERT, MERGE, ALIGN) reported failure, whatever CONSOLIDATE reported.
C3_StatusIsAndOfFatalStages ==
    run.stage = "DONE" =>
        /\ run.result # "none"
        /\ run.result = "ok" <=> \A s \in FatalStages : run.res[s] \in {"ok", "none"}
        /\ run.result = "fail" <=> \E s \in FatalStages : run.res[s] = "fail"

C3_Witness ==
    /\ run.stage = "DONE"
    /\ run.res["CONSOLIDATE"] = "fail"
    /\ run.res["ALIGN"] = "ok"
    /\ run.result = "ok"

\* C4: the stages started in a run are started in the order PDF_CONVERT,
\* MERGE, ALIGN, CONSOLIDATE, each at most once; a stage is started only
\* when every stage started before it has completed successfully and every
\* stage left out was skipped by the arguments; the alignment and the
\* consolidation never run at the same time, and inside a run each runs only
\* as the last stage started.
C4_StagesInOrder ==
    /\ \A i, j \in 1..Len(run.started) :
          i < j => Ord(run.started[i]) < Ord(run.started[j])
    /\ \A i \in 1..Len(run.started) :
          /\ i < Len(run.started) => run.res[run.started[i]] = "ok"
          /\ run.stage \in Stages => Ord(run.started[i]) <= Ord(run.stage)
    /\ \A s \in Stages :
          run.res[s] # "none" => InSeq(s, run.started)
    /\ InSeq("MERGE", run.started) =>
          (run.skip <=> ~InSeq("PDF_CONVERT", run.started))
    /\ InSeq("CONSOLIDATE", run.started) =>
          /\ InSeq("MERGE", run.started)
          /\ run.align <=> InSeq("ALIGN", run.started)
    /\ InSeq("ALIGN", run.started) => InSeq("MERGE", run.started)
    /\ ~(AlActive /\ PmActive)
    /\ run.stage \in Stages =>
          /\ AlActive <=>
                (run.stage = "ALIGN" /\ run.started # <<>>
                   /\ run.started[Len(run.started)] = "ALIGN")
          /\ PmActive <=>
                (run.stage = "CONSOLIDATE" /\ run.started # <<>>
                   /\ run.started[Len(run.started)] = "CONSOLIDATE")
    /\ (run.stage = "DONE" /\ run.started # <<>>) =>
          run.res[run.started[Len(run.started)]] # "none"

C4_Witness ==
    /\ run.stage = "DONE"
    /\ run.started = <<"PDF_CONVERT", "MERGE", "ALIGN", "CONSOLIDATE">>


\* the experiments directory is as the running consolidation found it
NothingDeleted ==
    LET b == The(pm.before)
    IN  srcFile = b.srcFile /\ exps = b.exps /\ expDir = b.expDir

\* the aligned files the consolidation has to migrate: those of the last
\* experiment, as the call found it, for the pairs of the language plan
Migrated ==
    LET b == The(pm.before)
    IN  IF b.last = None \/ inst.detected_language_src = None THEN {}
        ELSE {t \in Langs :
                /\ InSeq(t, The(inst.detected_language_tgt))
                /\ AlignedKey(The(inst.detected_language_src), t)
                      \in DOMAIN b.exps[The(b.last)]}

AlignedBefore(t) ==
    LET b == The(pm.before)
    IN  b.exps[The(b.last)][AlignedKey(The(inst.detected_language_src), t)]

InDeliverable(key, file) == key \in DOMAIN deliv /\ deliv[key] = file

\* the merged chunk file and every aligned file to migrate is still where it
\* was or, whole, in the deliverable directory
OutputsSafe ==
    LET b == The(pm.before)
        src == The(inst.detected_language_src)
    IN  /\ b.srcFile # None =>
              (srcFile = b.srcFile \/ InDeliverable(ChunksKey, The(b.srcFile)))
        /\ \A t \in Migrated :
              \/ /\ The(b.last) \in DOMAIN exps
                 /\ AlignedKey(src, t) \in DOMAIN exps[The(b.last)]
                 /\ exps[The(b.last)][AlignedKey(src, t)] = AlignedBefore(t)
              \/ InDeliverable(PairKey(src, t), AlignedBefore(t))

\* C5: while apply_production_mode is copying, and when it has returned
\* because a copy failed, nothing under the experiments directory has been
\* deleted; when the deletion is reached the chunk file and every aligned
\* file to migrate has been copied; so at every point of the call each of
\* them exists in the experiment tree or in the deliverable directory.
C5_CopyThenDelete ==
    /\ pm.pc \in {"start", "chunks", "aligned", "rm_exp"} => NothingDeleted
    /\ (pm.pc = "ret" /\ pm.at \in {"copy_chunks", "copy_aligned", "rmtree"})
          => NothingDeleted
    /\ pm.pc \in {"rm_exp", "rm_md"} =>
          LET b == The(pm.before)
          IN  /\ b.srcFile # None => InDeliverable(ChunksKey, The(b.srcFile))
              /\ \A t \in Migrated :
                    InDeliverable(PairKey(The(inst.detected_language_src), t),
                                  AlignedBefore(t))
    /\ pm.pc # "off" => OutputsSafe

\* a copy of an aligned file failed after the chunk file was copied
C5_Witness ==
    /\ pm.pc = "ret"
    /\ pm.at = "copy_aligned"
    /\ pm.idx = 2
    /\ InDeliverable(ChunksKey, The(srcFile))

\* the statement of C6 as claimed: after a successful consolidation of a
\* completed experiment every target language of the run has its
\* {src}-{tgt}.jsonl in the deliverable directory
C6_AsClaimed ==
    (pm.pc = "ret" /\ pm.ret = "ok" /\ config.IS_PROD
        /\ The(pm.before).last # None) =>
        LET b == The(pm.before)
            src == The(inst.detected_language_src)
            tgts == The(inst.detected_language_tgt)
        IN  /\ InDeliverable(ChunksKey, The(b.srcFile))
            /\ \A i \in 1..Len(tgts) :
                  /\ AlignedKey(src, tgts[i]) \in DOMAIN b.exps[The(b.last)]
                  /\ InDeliverable(PairKey(src, tgts[i]),
                                   b.exps[The(b.last)][AlignedKey(src, tgts[i])])
            /\ ~expDir /\ exps = NoExps /\ srcFile = None
            /\ mdDirs = NoDirs

\* C6 (amended): after a successful consolidation of a completed experiment
\* the deliverable directory holds chunks.jsonl equal to the merged chunk
\* file and, for each target language whose pair has an aligned file in the
\* experiment, {src}-{tgt}.jsonl equal to that file; the experiments
\* directory no longer exists and data_dir has no subdirectory left.
C6_Consolidated ==
    (pm.pc = "ret" /\ pm.ret = "ok" /\ config.IS_PROD
        /\ The(pm.before).last # None) =>
        LET b == The(pm.before)
            src == The(inst.detected_language_src)
        IN  /\ b.srcFile # None
            /\ InDeliverable(ChunksKey, The(b.srcFile))
            /\ \A t \in Migrated : InDeliverable(PairKey(src, t), AlignedBefore(t))
            /\ ~expDir /\ exps = NoExps /\ srcFile = None
            /\ mdDirs = NoDirs

\* a successful consolidation of an experiment in which one pair was
\* skipped and another one aligned
C6_Witness ==
    /\ pm.pc = "ret" /\ pm.ret = "ok" /\ config.IS_PROD
    /\ The(pm.before).last # None
    /\ Migrated # {}
    /\ \E i \in 1..Len(pm.language_tgt) : pm.language_tgt[i] \notin Migrated

\* the statement of C7 as claimed: with IS_PROD and no language information
\* (no alignment got as far as its languages), a consolidation that meets no
\* I/O error copies the chunk file, deletes the experiments directory and
\* does not report failure
C7_AsClaimed ==
    (pm.pc = "ret" /\ config.IS_PROD /\ inst.detected_language_src = None
        /\ pm.at \notin IoErrorPlaces) =>
        /\ pm.ret = "ok"
        /\ The(pm.before).srcFile # None =>
              InDeliverable(ChunksKey, The(The(pm.before).srcFile))
        /\ ~expDir

\* C8: a consolidation that follows directly on a consolidation that met no
\* I/O error leaves the deliverable directory as the first one left it,
\* at its end and at every point before.
C8_ConsolidationIdempotent ==
    (pm.pc # "off" /\ pm.prev # None) => deliv = The(pm.prev)

\* a second consolidation has returned, the first having delivered the
\* chunk file and an aligned file
C8_Witness ==
    /\ pm.pc = "ret"
    /\ pm.prev # None
    /\ config.IS_PROD
    /\ ChunksKey \in DOMAIN deliv
    /\ \E s \in Langs, t \in Langs : PairKey(s, t) \in DOMAIN deliv

\* the statement of C9 as claimed: a run that found a side of a pair without
\* chunks, and met no other trouble, does not fail
C9_AsClaimed ==
    (al.pc = "ret" /\ al.at \in {"nosrc", "end"}) => al.ret = "ok"

\* C9 (amended): a pair whose target language has no chunks is skipped and
\* the loop goes on with the next pair, so that at the end every target
\* with chunks has its aligned and metadata files and the run returns True;
\* a skip never makes the run return False.  A source language without
\* chunks makes the run return False before any pair is processed.
C9_EmptySides ==
    /\ al.pc \in {"pair", "meta"} =>
          /\ EntriesOf(al.data, al.src) # <<>>
          /\ \A i \in 1..(al.idx - 1) :
                /\ InSeq(al.tgts[i], al.skipped) <=> EntriesOf(al.data, al.tgts[i]) = <<>>
                /\ InSeq(al.tgts[i], al.done) <=> EntriesOf(al.data, al.tgts[i]) # <<>>
    /\ al.pc \in {"pair", "meta", "ret"} =>
          \A i \in 1..Len(al.done) :
              /\ AlignedKey(al.src, al.done[i]) \in DOMAIN exps[al.exp]
              /\ MetadataKey(al.src, al.done[i]) \in DOMAIN exps[al.exp]
    /\ (al.pc = "ret" /\ al.at = "end") =>
          /\ al.ret = "ok"
          /\ Len(al.done) + Len(al.skipped) = Len(al.tgts)
    /\ (al.pc = "ret" /\ al.ret = "fail") =>
          /\ al.at \in {"import", "nofile", "nosrc"}
          /\ al.done = <<>>
          /\ al.skipped = <<>>
    /\ (al.pc = "ret" /\ al.at = "nosrc") => al.ret = "fail"

\* the first pair was skipped, the second one aligned, and the run returned
C9_Witness ==
    /\ al.pc = "ret"
    /\ al.at = "end"
    /\ al.skipped = <<"it">>
    /\ al.done = <<"fr">>

\* the statement of C10 as claimed: run_bert_alignment ends by returning
\* True or False, also when the aligner throws
C10_AsClaimed ==
    al.pc = "ret" => al.ret \in {"ok", "fail"}


----------------------------------------------------------------------------
(* Language plans *)

\* run_bert_alignment has got past its language plan
Resolved ==
    \/ al.pc \in {"pair", "meta"}
    \/ al.pc = "ret" /\ al.at \notin {"import", "nofile"}

\* the corpus file the alignment reads
Corpus == IF srcFile = None THEN <<>> ELSE The(srcFile).body

\* the language codes the chunks of the corpus carry
Observed == {Corpus[i].language : i \in {j \in 1..Len(Corpus) : HasLanguage(Corpus[j])}}

\* the position of a code in the lexicographic order
Rank(l) == CHOOSE i \in 1..Len(CodeOrder) : CodeOrder[i] = l

\* the statement of C11 as claimed: without a 'languages' section and with a
\* corpus from which no language can be determined, the resolution ends in
\* an error and leaves no language plan
C11_AsClaimed ==
    (Resolved /\ config.languages = None /\ DetectedLangs(Corpus) = {}) =>
        /\ inst.detected_language_src = None
        /\ al.src = ""

\* the statement of C12 as claimed: the targets of the plan an alignment
\* uses have no duplicates and do not contain the source
C12_AsClaimed ==
    Resolved =>
        /\ \A i, j \in 1..Len(al.tgts) : al.tgts[i] = al.tgts[j] => i = j
        /\ \A i \in 1..Len(al.tgts) : al.tgts[i] # al.src

\* C13: with a non-empty 'languages' section the plan is its source and
\* its targets as written, and the inference has not run, whatever the
\* corpus holds.
C13_ConfigAuthoritative ==
    (Resolved /\ config.languages # None) =>
        /\ ~al.inferred
        /\ al.src = The(config.languages).source
        /\ al.tgts = The(config.languages).targets
        /\ inst.detected_language_src = Some(The(config.languages).source)
        /\ inst.detected_language_tgt = Some(The(config.languages).targets)

\* a configured plan that the inference would not have given
C13_Witness ==
    /\ Resolved
    /\ config.languages # None
    /\ al.src = "fr"
    /\ al.tgts = <<"it", "fr", "it">>
    /\ Observed = {"en", "it"}

\* C14: without a 'languages' section and with a non-empty set of observed
\* languages, the source is the first of en, it, de, fr that is observed,
\* else the smallest observed code; the targets are the other observed
\* codes in ascending order; so the plan is a function of the observed set.
C14_InferredPlan ==
    (Resolved /\ config.languages = None /\ Observed # {}) =>
        /\ al.inferred
        /\ al.src \in Observed
        /\ \/ \E i \in 1..Len(source_priority) :
                 /\ al.src = source_priority[i]
                 /\ \A j \in 1..(i - 1) : source_priority[j] \notin Observed
           \/ /\ \A i \in 1..Len(source_priority) : source_priority[i] \notin Observed
              /\ \A l \in Observed : Rank(al.src) <= Rank(l)
        /\ {al.tgts[i] : i \in 1..Len(al.tgts)} = Observed \ {al.src}
        /\ \A i, j \in 1..Len(al.tgts) : i < j => Rank(al.tgts[i]) < Rank(al.tgts[j])
        /\ inst.detected_language_src = Some(al.src)
        /\ inst.detected_language_tgt = Some(al.tgts)

\* the chunks come in the order it, fr, en: source en, targets fr, it
C14_Witness ==
    /\ Resolved
    /\ config.languages = None
    /\ Len(Corpus) = 3
    /\ Corpus[1].language = "it"
    /\ Observed = {"it", "en", "fr"}
    /\ al.src = "en"
    /\ al.tgts = <<"fr", "it">>

----------------------------------------------------------------------------
(* Alignment records *)

\* the aligned file of the current pair has been written, its metadata not yet
Written == al.pc = "meta"

\* the bead list the aligner returned for the current pair
Beads == The(al.beads)

\* the records of the aligned file of the current pair, in file order
Records == exps[al.exp][AlignedKey(al.src, al.tgts[al.idx])].body

\* the chunks of language l at the positions of one side of a bead
ChunksAt(l, positions) ==
    [x \in 1..Len(positions) |-> EntriesOf(al.data, l)[positions[x] + 1]]

\* the bead a record says it comes from
BeadOf(r) == Beads[r.pair_id + 1]

\* the texts of the chunks, one after the other
RECURSIVE Concat(_)
Concat(chunks) ==
    IF chunks = <<>> THEN <<>> ELSE Head(chunks).text \o Concat(Tail(chunks))

\* C15: the records of the file carry alignment_id 0, 1, .. in file order;
\* the pair_id of a record is the 0-based position of its bead in the bead
\* list (kept and dropped beads counted alike), and grows along the file.
C15_IdsDense ==
    Written =>
        /\ \A k \in 1..Len(Records) :
              /\ Records[k].alignment_id = k - 1
              /\ Records[k].pair_id \in 0..(Len(Beads) - 1)
              /\ Records[k].src_chunks = ChunksAt(al.src, BeadOf(Records[k]).src)
              /\ Records[k].tgt_chunks = ChunksAt(al.tgts[al.idx], BeadOf(Records[k]).tgt)
        /\ \A k, l \in 1..Len(Records) :
              k < l => Records[k].pair_id < Records[l].pair_id

\* a bead was dropped before one that was kept: the two numberings differ
C15_Witness ==
    /\ Written
    /\ ~config.keep_all_alignments
    /\ Len(Beads) = 3
    /\ Len(Records) = 1
    /\ Records[1].alignment_id = 0
    /\ Records[1].pair_id = 1

\* C16: a bead has a record in the file exactly when keep_all_alignments is
\* true or both its sides are non-empty; the record of a bead without
\* targets has the type "n-0", an empty tgt_text and no tgt_chunks, and
\* likewise for a bead without sources.
C16_KeptIffFlagOrBothSides ==
    Written =>
        /\ \A i \in 1..Len(Beads) :
              (\E k \in 1..Len(Records) : Records[k].pair_id = i - 1)
                 <=> (config.keep_all_alignments
                        \/ (Beads[i].src # <<>> /\ Beads[i].tgt # <<>>))
        /\ \A k \in 1..Len(Records) :
              /\ BeadOf(Records[k]).tgt = <<>> =>
                    /\ Records[k].tgt_text = <<>>
                    /\ Records[k].tgt_chunks = <<>>
                    /\ Records[k].alignment_type
                          = ToString(Len(BeadOf(Records[k]).src)) \o "-0"
              /\ BeadOf(Records[k]).src = <<>> =>
                    /\ Records[k].src_text = <<>>
                    /\ Records[k].src_chunks = <<>>
                    /\ Records[k].alignment_type
                          = "0-" \o ToString(Len(BeadOf(Records[k]).tgt))

\* the bead ([0,1],[]) kept under keep_all_alignments
C16_Witness ==
    /\ Written
    /\ config.keep_all_alignments
    /\ Beads[1] = Bead(<<0, 1>>, <<>>)
    /\ Records[1].pair_id = 0
    /\ Records[1].alignment_type = "2-0"
    /\ Records[1].tgt_text = <<>>
    /\ Records[1].tgt_chunks = <<>>

\* C17: in every record src_text is the texts of its src_chunks joined, and
\* is empty exactly when there are no src_chunks; the same for tgt_text and
\* tgt_chunks.
C17_TextsJoinChunks ==
    Written =>
        \A k \in 1..Len(Records) :
            /\ Records[k].src_text = Concat(Records[k].src_chunks)
            /\ Records[k].tgt_text = Concat(Records[k].tgt_chunks)
            /\ Records[k].src_text = <<>> <=> Records[k].src_chunks = <<>>
            /\ Records[k].tgt_text = <<>> <=> Records[k].tgt_chunks = <<>>

\* one en chunk, one it chunk, the single bead ([0],[0]): one record
C17_Witness ==
    /\ Written
    /\ ~config.keep_all_alignments
    /\ Len(al.data) = 2
    /\ Beads = <<Bead(<<0>>, <<0>>)>>
    /\ Len(Records) = 1
    /\ Records[1].alignment_type = "1-1"
    /\ Records[1].src_text = Text("en", 1)
    /\ Records[1].tgt_text = Text("it", 1)

\* C18: in every record alignment_type is "n-m", n and m being the numbers
\* of positions of the two sides of its bead, which are also the numbers of
\* its src_chunks and tgt_chunks.
C18_TypeIsSideCardinalities ==
    Written =>
        \A k \in 1..Len(Records) :
            /\ Records[k].alignment_type
                  = ToString(Len(BeadOf(Records[k]).src)) \o "-"
                      \o ToString(Len(BeadOf(Records[k]).tgt))
            /\ Len(Records[k].src_chunks) = Len(BeadOf(Records[k]).src)
            /\ Len(Records[k].tgt_chunks) = Len(BeadOf(Records[k]).tgt)

\* a record of type "2-1" with two source chunks and one target chunk
C18_Witness ==
    /\ Written
    /\ \E k \in 1..Len(Records) :
          /\ Records[k].alignment_type = "2-1"
          /\ Len(Records[k].src_chunks) = 2
          /\ Len(Records[k].tgt_chunks) = 1

\* the records read back from a file (one JSON object per line)
ReadBack(file) == file.body

\* the alignment_type distribution of a list of records, counted afresh
Recount(records) ==
    [t \in {records[k].alignment_type : k \in 1..Len(records)} |->
        Cardinality({k \in 1..Len(records) : records[k].alignment_type = t})]

\* the sum of the counts of a distribution
RECURSIVE SumCounts(_)
SumCounts(dist) ==
    IF DOMAIN dist = {} THEN 0
    ELSE LET t == CHOOSE x \in DOMAIN dist : TRUE
         IN  dist[t] + SumCounts([x \in DOMAIN dist \ {t} |-> dist[x]])

\* the pair s-t of experiment e is being written again by the running call
Rewriting(e, s, t) ==
    al.pc = "meta" /\ al.exp = e /\ al.src = s /\ al.tgts[al.idx] = t

\* C19: for every pair of every experiment whose metadata is written (and
\* which is not just being written again), the aligned file has as many
\* records as the counts of alignment_type_distribution add up to, as many
\* as total_aligned_pairs says, and the distribution counted from the
\* records read back is the one of the metadata.
C19_DistributionMatchesFile ==
    \A e \in DOMAIN exps : \A s \in Codes, t \in Codes :
        (MetadataKey(s, t) \in DOMAIN exps[e] /\ ~Rewriting(e, s, t)) =>
            /\ AlignedKey(s, t) \in DOMAIN exps[e]
            /\ LET records == ReadBack(exps[e][AlignedKey(s, t)])
                   metadata == ReadBack(exps[e][MetadataKey(s, t)])
               IN  /\ Len(records) = SumCounts(metadata.alignment_type_distribution)
                   /\ Len(records) = metadata.total_aligned_pairs
                   /\ Recount(records) = metadata.alignment_type_distribution

\* a pair written with two records of one type and one of another
C19_Witness ==
    /\ al.pc = "ret"
    /\ al.at = "end"
    /\ MetadataKey("en", "it") \in DOMAIN exps[al.exp]
    /\ LET dist == ReadBack(exps[al.exp][MetadataKey("en", "it")]).alignment_type_distribution
       IN  /\ DOMAIN dist = {"1-0", "0-1"}
           /\ dist["1-0"] = 2
           /\ dist["0-1"] = 1

----------------------------------------------------------------------------
(* Merged chunks *)

\* the entries of the corpus file
Merged == The(srcFile).body

\* the places <<folder, file, line>> of the text lines of the files whose
\* names match, folders numbered in name order
Places ==
    UNION {UNION {{<<d, f, i>> :
                     i \in {x \in 1..Len(mdDirs[LangOrder[d]][f].lines) :
                              /\ mdDirs[LangOrder[d]][f].matches
                              /\ mdDirs[LangOrder[d]][f].lines[x] # <<>>}} :
                  f \in 1..Len(mdDirs[LangOrder[d]])} :
           d \in {x \in 1..Len(LangOrder) : LangOrder[x] \in DOMAIN mdDirs}}

LineAt(pl) == mdDirs[LangOrder[pl[1]]][pl[2]].lines[pl[3]]

\* pl comes before ql in the traversal: folder, then file, then line
Before(pl, ql) ==
    \/ pl[1] < ql[1]
    \/ pl[1] = ql[1] /\ pl[2] < ql[2]
    \/ pl[1] = ql[1] /\ pl[2] = ql[2] /\ pl[3] < ql[3]

\* C20: the corpus file a merge has written holds one entry per text line
\* of the matching files; the k-th entry (from 0) has chunk_id k; the
\* entries come in the order of the traversal, folder by folder in name
\* order, file by file, line by line, each with the language and the page
\* of its file.
C20_ChunkIdsDense ==
    srcFile # None =>
        /\ Len(Merged) = Cardinality(Places)
        /\ \A k \in 1..Len(Merged) : Merged[k].chunk_id = k - 1
        /\ \A k \in 1..Len(Merged) :
              \E pl \in Places :
                  /\ LineAt(pl) = Merged[k].text
                  /\ Merged[k].language = LangOrder[pl[1]]
                  /\ Merged[k].page = pl[2]
                  /\ Cardinality({ql \in Places : Before(ql, pl)}) = k - 1

\* two folders, a file that is passed over, empty lines, four chunks
C20_Witness ==
    /\ srcFile # None
    /\ DOMAIN mdDirs = {"en", "it"}
    /\ ~mdDirs["en"][1].matches
    /\ Len(mdDirs["en"]) = 2
    /\ Len(Merged) = 4
    /\ Merged[2].text = LineText("en", 2, 3)
    /\ Merged[2].chunk_id = 1
    /\ Merged[4].language = "it"
    /\ Merged[4].chunk_id = 3

----------------------------------------------------------------------------
(* Files whose names do not match *)

\* the folders without the files whose names do not match the pattern
Matching(dirs) ==
    [l \in DOMAIN dirs |-> SelectSeq(dirs[l], LAMBDA f : f.matches)]

\* the lines of the files whose names do not match
StrayLines ==
    UNION {UNION {{mdDirs[l][f].lines[i] : i \in 1..Len(mdDirs[l][f].lines)} :
                  f \in {x \in 1..Len(mdDirs[l]) : ~mdDirs[l][x].matches}} :
           l \in DOMAIN mdDirs}

\* C21: a file whose name does not match the pattern is passed over and
\* the merge goes on: the corpus file written is the one the same folders
\* would give without that file (so the file takes no chunk id), none of
\* its lines is an entry, and every text line of every matching file is
\* an entry.
C21_NonMatchingSkipped ==
    srcFile # None =>
        /\ Merged = process_md_files(Matching(mdDirs))
        /\ \A k \in 1..Len(Merged) : Merged[k].text \notin StrayLines
        /\ \A pl \in Places : \E k \in 1..Len(Merged) : Merged[k].text = LineAt(pl)
        /\ {Merged[k].chunk_id : k \in 1..Len(Merged)} = 0..(Cardinality(Places) - 1)

\* a file passed over after a matching one and one before a matching one
C21_Witness ==
    /\ srcFile # None
    /\ DOMAIN mdDirs = {"en", "it"}
    /\ Len(mdDirs["en"]) = 2 /\ Len(mdDirs["it"]) = 2
    /\ mdDirs["en"][1].matches /\ ~mdDirs["en"][2].matches
    /\ ~mdDirs["it"][1].matches /\ mdDirs["it"][2].matches
    /\ StrayLines # {}
    /\ Len(Merged) = 2
    /\ Merged[1].chunk_id = 0 /\ Merged[1].language = "en"
    /\ Merged[2].chunk_id = 1 /\ Merged[2].language = "it"
----------------------------------------------------------------------------
(* Experiment ids *)

\* C22 (as claimed): an alignment run that starts after the earlier ones
\* have returned is given an experiment id that no experiment directory on
\* disk bears, so it writes into a directory of its own.  (The step out of
\* "load" that fails neither on the import nor on the corpus file is the
\* one that allocates the id and makes the directory.)
C22_AsClaimed ==
    [][al.pc = "load" /\ al'.pc # "load" /\ al'.at \notin {"import", "nofile"} =>
          al'.exp \notin DOMAIN exps]_vars
----------------------------------------------------------------------------
(* The validation field *)

\* the records of the aligned files of the experiments on disk
Persisted ==
    UNION {UNION {{exps[e][k].body[i] : i \in 1..Len(exps[e][k].body)} :
                  k \in {x \in DOMAIN exps[e] : x[1] = "aligned"}} :
           e \in DOMAIN exps}

----------------------------------------------------------------------------
(* What consolidation removes *)

\* C26: a consolidation with IS_PROD that got past its copies and its
\* rmtree has removed the experiments directory whole: the corpus file and
\* every experiment, not only the last one.  The corpus file comes back
\* only by a merge, and an alignment run that finds it missing returns
\* failure and writes nothing.
C26_WholeDirectoryRemoved ==
    /\ [](config.IS_PROD /\ pm.pc = "ret"
            /\ (pm.ret = "ok" \/ pm.at \in {"rm_md", "print"}) =>
                ~expDir /\ srcFile = None /\ exps = NoExps)
    /\ [][/\ srcFile = None /\ srcFile' # None => hist'.last = "merge"
          /\ al.pc = "load" /\ srcFile = None /\ al'.pc # "load" =>
                al'.pc = "ret" /\ al'.ret = "fail" /\ exps' = exps]_vars

\* the full pipeline has consolidated its experiment next to an older one,
\* and the alignment called after it has found no corpus
C26_Witness ==
    /\ config.IS_PROD
    /\ PairKey("en", "it") \in DOMAIN deliv
    /\ ChunksKey \in DOMAIN deliv
    /\ ~expDir /\ srcFile = None /\ exps = NoExps
    /\ run.result # "none"
    /\ al.pc = "ret" /\ al.ret = "fail" /\ al.at = "nofile"
----------------------------------------------------------------------------
(* A merge that writes nothing *)

\* C27: when the merge script exits with status 0 the MERGE stage reports
\* success and the run goes on to ALIGN or CONSOLIDATE; if there was no
\* folder to merge the script has written nothing, so the corpus file is as
\* it was before the stage (missing, or left by an earlier run), and if
\* there was one the corpus file is the merge of the folders.
C27_MergeOkWithoutCorpus ==
    [][run.stage = "MERGE" /\ run'.stage # "MERGE" /\ run'.res["MERGE"] = "ok" =>
          /\ run'.stage = IF run.align THEN "ALIGN" ELSE "CONSOLIDATE"
          /\ DOMAIN mdDirs = {} => srcFile' = srcFile
          /\ DOMAIN mdDirs # {} => srcFile' = Some(File(process_md_files(mdDirs)))]_vars

\* MERGE has reported success, no corpus file was written, and ALIGN has
\* been entered and has failed for want of the file
C27_Witness ==
    /\ run.res["MERGE"] = "ok"
    /\ run.res["ALIGN"] = "fail"
    /\ al.at = "nofile"
    /\ srcFile = None
    /\ DOMAIN mdDirs = {}
----------------------------------------------------------------------------
(* The two files of a language pair *)

----------------------------------------------------------------------------
(* validate_alignments.py: process_jsonl_file over one input file *)

\* the variables of the pipeline object and its directories
pipeline == <<config, clock, mdDirs, deliv, expDir, srcFile, exps,
              inst, run, al, pm, calls, hist>>

\* a pipeline object just constructed on an empty data directory
Fresh ==
    /\ config = Config(TRUE, None, FALSE, TRUE)
    /\ clock = 0
    /\ mdDirs = NoDirs
    /\ deliv = EmptyDir
    /\ expDir = FALSE
    /\ srcFile = None
    /\ exps = NoExps
    /\ inst = InstNew
    /\ run = RunIdle
    /\ al = AlOff
    /\ pm = PmOff
    /\ calls = 0
    /\ hist = [last |-> "none", clean |-> FALSE]

\* What a line of the input file can be: no JSON; JSON that is not an
\* object; an object whose "src" or whose "tgt" is missing or empty; an
\* object with both texts.
LineKinds == {"bad_json", "not_object", "no_src", "no_tgt", "record"}

\* How the call to the model can end for one record: a JSON object with
\* is_valid_alignment true, false or missing, or with a confidence that is
\* a string; text that is not JSON; JSON that is not an object; an
\* exception of the client.
Replies ==
    {"valid", "invalid", "no_verdict", "text_confidence",
     "not_json", "not_object", "api_error"}

\* (variant) a reply that cannot be parsed is passed off as a success
validate_alignment_unflagged(reply) ==
    [is_valid_alignment |-> IF reply = "valid" THEN Some(TRUE) ELSE None,
     confidence |-> [number |-> 0], reason |-> "given",
     validation_success |-> TRUE, error |-> None]

\* validate_alignment: the result dict, by the way the call ended; a
\* confidence is a number or whatever else the reply held
validate_alignment(reply) ==
    IF reply \in {"valid", "invalid", "no_verdict", "text_confidence"}
    THEN [is_valid_alignment |-> IF reply \in {"valid", "text_confidence"} THEN Some(TRUE)
                                 ELSE IF reply = "invalid" THEN Some(FALSE) ELSE None,
          confidence |-> IF reply = "text_confidence" THEN [text |-> "0.9"]
                         ELSE [number |-> 1],
          reason |-> "given",
          validation_success |-> TRUE, error |-> None]
    ELSE IF reply = "not_json"
    THEN [is_valid_alignment |-> None, confidence |-> [number |-> 0],
          reason |-> "Failed to parse LLM response as JSON",
          validation_success |-> FALSE, error |-> Some("json_parse_error")]
    ELSE [is_valid_alignment |-> None, confidence |-> [number |-> 0],
          reason |-> "Error during validation",
          validation_success |-> FALSE,
          error |-> Some(IF reply = "not_object" THEN "TypeError" ELSE "APIError")]

\* (variant) only the successful validations are counted as processed
StatsAfterSuccessOnly(stats, result) ==
    [stats EXCEPT
        !.total_processed = IF result.validation_success THEN @ + 1 ELSE @,
        !.valid_alignments = IF result.validation_success
                                /\ result.is_valid_alignment = Some(TRUE)
                             THEN @ + 1 ELSE @,
        !.invalid_alignments = IF result.validation_success
                                  /\ result.is_valid_alignment # Some(TRUE)
                               THEN @ + 1 ELSE @,
        !.validation_errors = IF result.validation_success THEN @ ELSE @ + 1]

\* "Update statistics"
StatsAfter(stats, result) ==
    [stats EXCEPT
        !.total_processed = @ + 1,
        !.valid_alignments = IF result.validation_success
                                /\ result.is_valid_alignment = Some(TRUE)
                             THEN @ + 1 ELSE @,
        !.invalid_alignments = IF result.validation_success
                                  /\ result.is_valid_alignment # Some(TRUE)
                               THEN @ + 1 ELSE @,
        !.validation_errors = IF result.validation_success THEN @ ELSE @ + 1]

\* the loop is left: the input is exhausted or max_records lines were read
LoopOver == vd.i >= Len(vd.input) \/ (vd.max_records # 0 /\ vd.i >= vd.max_records)

\* One iteration of "for i, line in enumerate(infile)": the line is passed
\* over, or record.get raises on a line that is no object, or the record is
\* validated, counted and written with its result.
ProcessLine ==
    /\ vd.pc = "loop"
    /\ ~LoopOver
    /\ LET kind == vd.input[vd.i + 1]
       IN  IF kind = "not_object"
           THEN vd' = [vd EXCEPT !.pc = "raised"]
           ELSE IF kind # "record"
           THEN vd' = [vd EXCEPT !.i = @ + 1, !.replies = Append(@, "none")]
           ELSE \E reply \in Replies :
                  LET result == validate_alignment(reply)
                  IN  vd' = [vd EXCEPT
                                !.i = @ + 1,
                                !.replies = Append(@, reply),
                                !.stats = StatsAfter(@, result),
                                !.confidences = IF result.validation_success
                                                THEN Append(@, result.confidence) ELSE @,
                                !.out = Append(@, [line |-> vd.i + 1,
                                                   validation |-> result])]
    /\ UNCHANGED <<pipeline, sp, wr>>

\* after the loop: the average over the confidences (kept as the pair of
\* their sum and their number), "return stats"; sum() raises TypeError
\* when one of them is not a number
ValidateReturn ==
    /\ vd.pc = "loop"
    /\ LoopOver
    /\ vd' = IF \E k \in 1..Len(vd.confidences) : "text" \in DOMAIN vd.confidences[k]
             THEN [vd EXCEPT !.pc = "raised"]
             ELSE [vd EXCEPT !.pc = "done",
                             !.stats.average_confidence =
                                 IF vd.confidences = <<>> THEN <<0, 1>>
                                 ELSE <<Cardinality({k \in 1..Len(vd.confidences) :
                                                      vd.confidences[k].number = 1}),
                                        Len(vd.confidences)>>]
    /\ UNCHANGED <<pipeline, sp, wr>>

\* process_jsonl_file is called on a file of up to MaxRecords lines, with
\* max_records unset (0) or set
InitValidate ==
    /\ Fresh
    /\ sp = None /\ wr = None
    /\ \E n \in 0..MaxRecords : \E input \in [1..n -> LineKinds] :
       \E max_records \in 0..(MaxRecords - 1) :
          vd = [input |-> input, max_records |-> max_records, i |-> 0, pc |-> "loop",
                stats |-> [total_processed |-> 0, valid_alignments |-> 0,
                           invalid_alignments |-> 0, validation_errors |-> 0,
                           average_confidence |-> <<0, 1>>],
                confidences |-> <<>>, replies |-> <<>>, out |-> <<>>]

SpecValidate == InitValidate /\ [][ProcessLine \/ ValidateReturn]_vars

\* C24: a record whose enrichment call failed (an exception, or a reply that
\* cannot be used) is written with
\* validation_success false and an error and a reason; the records after it
\* are processed all the same (every record line read so far has been
\* written, and without max_records the loop ends only at the end of the
\* input); a failed call never makes process_jsonl_file raise: it raises
\* only on an input line that is no object, or after the loop on a
\* confidence that is no number.
C24_FailuresRecorded ==
    /\ \A k \in 1..Len(vd.replies) :
          vd.replies[k] \in {"not_json", "not_object", "api_error"} =>
              \E j \in 1..Len(vd.out) :
                  /\ vd.out[j].line = k
                  /\ ~vd.out[j].validation.validation_success
                  /\ vd.out[j].validation.error # None
                  /\ vd.out[j].validation.reason # "given"
                  /\ vd.out[j].validation.is_valid_alignment = None
    /\ \A k \in 1..vd.i :
          vd.input[k] = "record" => \E j \in 1..Len(vd.out) : vd.out[j].line = k
    /\ vd.pc = "done" /\ vd.max_records = 0 => vd.i = Len(vd.input)
    /\ vd.pc = "raised" =>
          \/ ~LoopOver /\ vd.input[vd.i + 1] = "not_object"
          \/ LoopOver /\ \E k \in 1..Len(vd.replies) : vd.replies[k] = "text_confidence"

\* the client raised for the first record, the reply for the second was no
\* JSON, and the third was validated
C24_Witness ==
    /\ vd.pc = "done"
    /\ vd.replies = <<"api_error", "not_json", "valid">>
    /\ Len(vd.out) = 3
    /\ ~vd.out[1].validation.validation_success
    /\ vd.out[3].validation.is_valid_alignment = Some(TRUE)
    /\ vd.stats.validation_errors = 2
    /\ vd.stats.valid_alignments = 1

\* C30: after any number of input lines, total_processed is the sum of
\* valid_alignments, invalid_alignments and validation_errors and is the
\* number of records written; the lines that are no JSON or lack a text are
\* not counted and not written, so the records written are the record lines
\* read so far, in order.
C30_CountsAddUp ==
    /\ vd.stats.total_processed =
          vd.stats.valid_alignments + vd.stats.invalid_alignments
          + vd.stats.validation_errors
    /\ vd.stats.total_processed = Len(vd.out)
    /\ Len(vd.out) = Cardinality({k \in 1..vd.i : vd.input[k] = "record"})
    /\ \A j \in 1..Len(vd.out) : vd.input[vd.out[j].line] = "record"
    /\ \A j \in 1..(Len(vd.out) - 1) : vd.out[j].line < vd.out[j + 1].line

\* a line that is no JSON, a record whose call failed, a line without
\* target text: one record counted and written
C30_Witness ==
    /\ vd.input = <<"bad_json", "record", "no_tgt">>
    /\ vd.i = 3
    /\ vd.stats.total_processed = 1
    /\ vd.stats.validation_errors = 1
    /\ Len(vd.out) = 1
    /\ vd.out[1].line = 2
----------------------------------------------------------------------------
(* split_pdfs_by_page_parallel.py: the pool of workers of main()          *)
(* A file is <<directory, stem>>, a stem the list of the parts of a name: *)
(* doc.pdf is <<"doc">> and doc_page_001.pdf is <<"doc", 1>>.  A PDF is   *)
(* the list of its pages.                                                *)

\* page_path in split_pdf: where the worker of pdf_path writes page k
PagePath(pdf_path, k) ==
    <<IF sp.output_dir = None THEN pdf_path[1] ELSE The(sp.output_dir),
      Append(pdf_path[2], k)>>

\* The PDFs main() has found (rglob) and handed to the pool: any of doc.pdf
\* in en/ and in it/ and doc_page_001.pdf in en/, each of 1..MaxFiles
\* pages; --output-dir given or not.
InitSplit ==
    /\ Fresh
    /\ vd = None /\ wr = None
    /\ \E found \in SUBSET {<<"en", <<"doc">>>>, <<"it", <<"doc">>>>, <<"en", <<"doc", 1>>>>} :
       \E pages \in [found -> 1..MaxFiles] : \E output_dir \in {None, Some("out")} :
          LET files == [f \in found |-> [k \in 1..pages[f] |-> <<f, k>>]]
          IN  sp = [output_dir |-> output_dir, start |-> files, disk |-> files,
                    worker |-> [f \in found |-> [pc |-> "queued", pages |-> <<>>, k |-> 0]]]

\* split_pdf up to the loop: "reader = PdfReader(pdf_path)" reads the file
\* as it is on disk now
SplitOpen ==
    /\ \E f \in DOMAIN sp.worker :
        /\ sp.worker[f].pc = "queued"
        /\ sp' = [sp EXCEPT !.worker[f] = [pc |-> "writing", pages |-> sp.disk[f], k |-> 1]]
    /\ UNCHANGED <<pipeline, vd, wr>>

\* one iteration of "for page_num in range(num_pages)": the page file is
\* written, replacing whatever had that name
SplitWrite ==
    /\ \E f \in DOMAIN sp.worker :
        LET w == sp.worker[f]
        IN  /\ w.pc = "writing"
            /\ sp' = [sp EXCEPT
                         !.disk = Put(@, PagePath(f, w.k), <<w.pages[w.k]>>),
                         !.worker[f] = IF w.k = Len(w.pages)
                                       THEN [w EXCEPT !.pc = "done"]
                                       ELSE [w EXCEPT !.k = @ + 1]]
    /\ UNCHANGED <<pipeline, vd, wr>>

SpecSplit == InitSplit /\ [][SplitOpen \/ SplitWrite]_vars

\* C25 (as claimed): the workers of distinct PDFs write disjoint sets of
\* files and no worker writes a file that another reads or writes, so when
\* all are done every page file holds the page of its PDF as it was at the
\* start, whatever the order in which the workers ran.
C25_AsClaimed ==
    (\A f \in DOMAIN sp.worker : sp.worker[f].pc = "done") =>
        \A f \in DOMAIN sp.worker : \A k \in 1..Len(sp.start[f]) :
            /\ PagePath(f, k) \in DOMAIN sp.disk
            /\ sp.disk[PagePath(f, k)] = <<sp.start[f][k]>>
----------------------------------------------------------------------------
(* wrapper.py: generate_jsonl, which drives a pipeline object of its own   *)
(* in a temporary directory (IS_PROD set, languages detected)              *)

\* generate_jsonl is called for the PDFs of some languages
InitWrapper ==
    /\ Fresh
    /\ vd = None /\ sp = None
    /\ \E pdf_files \in SUBSET {"en", "it"} : \E run_alignment \in BOOLEAN :
          wr = [pc |-> "start", pdf_files |-> pdf_files, run_alignment |-> run_alignment,
                alignment_failed |-> FALSE, temp |-> FALSE, output |-> EmptyDir,
                at |-> "none", result |-> None]

\* From mkdtemp to "Step 6": the PDFs become md folders in the temporary
\* directory, or a step raises (CalledProcessError, OSError) and the
\* function returns through "except Exception".
WrapConvert ==
    /\ wr.pc = "start"
    /\ \E out \in {"ok", "fail"} :
          IF out = "ok"
          THEN /\ mdDirs' = MkDocs(wr.pdf_files)
               /\ wr' = [wr EXCEPT !.pc = "merge", !.temp = TRUE]
          ELSE /\ mdDirs' = mdDirs
               /\ wr' = [wr EXCEPT !.pc = "ret", !.temp = TRUE, !.at = "convert",
                                   !.result = Some([success |-> FALSE])]
    /\ UNCHANGED <<config, clock, deliv, expDir, srcFile, exps,
                   inst, run, al, pm, calls, hist, vd, sp>>

\* "if not pipeline.run_merge_to_jsonl(...): raise Exception(...)"
WrapMerge ==
    /\ wr.pc = "merge"
    /\ \E out \in {"ok", "fail"} :
        /\ RunMerge(out)
        /\ wr' = IF out = "ok" THEN [wr EXCEPT !.pc = "merged"]
                 ELSE [wr EXCEPT !.pc = "ret", !.at = "merge",
                                 !.result = Some([success |-> FALSE])]
    /\ UNCHANGED <<run, calls, vd, sp>>

\* "Run alignment if requested": the import test, then the call of
\* run_bert_alignment
WrapAlign ==
    /\ wr.pc = "merged"
    /\ \E imported \in BOOLEAN :
          IF wr.run_alignment /\ imported
          THEN /\ al' = [AlOff EXCEPT !.pc = "load"]
               /\ wr' = [wr EXCEPT !.pc = "aligning"]
          ELSE /\ al' = al
               /\ wr' = [wr EXCEPT !.pc = "move", !.alignment_failed = wr.run_alignment]
    /\ UNCHANGED <<config, clock, mdDirs, deliv, expDir, srcFile, exps,
                   inst, run, pm, calls, hist, vd, sp>>

\* (variant) an alignment that returns failure aborts the run
WrapMoveAborting ==
    /\ wr.pc = "aligning" /\ al.pc = "ret"
    /\ wr' = IF al.ret = "ok" THEN [wr EXCEPT !.pc = "collect"]
             ELSE [wr EXCEPT !.pc = "ret", !.at = "aligner",
                             !.alignment_failed = (al.ret = "fail"),
                             !.result = Some([success |-> FALSE])]
    /\ UNCHANGED <<pipeline, vd, sp>>

\* What follows the alignment, or follows at once when none is run: an
\* exception of run_bert_alignment leaves generate_jsonl; a False makes
\* alignment_failed; then "Apply production mode": output.jsonl is copied by
\* hand when the alignment was asked for and failed (an error is a warning
\* only), and apply_production_mode is called otherwise.
WrapMove ==
    /\ \/ wr.pc = "move"
       \/ wr.pc = "aligning" /\ al.pc = "ret"
    /\ LET failed == IF wr.pc = "move" THEN wr.alignment_failed ELSE al.ret = "fail"
       IN  IF wr.pc = "aligning" /\ al.ret = "raised"
           THEN /\ wr' = [wr EXCEPT !.pc = "ret", !.at = "aligner",
                                    !.result = Some([success |-> FALSE])]
                /\ UNCHANGED <<deliv, pm, hist>>
           ELSE IF failed /\ wr.run_alignment
           THEN /\ \E io \in IF srcFile = None THEN {"ok"} ELSE IoOutcomes :
                      deliv' = CopyChunks(deliv, srcFile, io)
                /\ wr' = [wr EXCEPT !.pc = "collect", !.alignment_failed = TRUE]
                /\ UNCHANGED <<pm, hist>>
           ELSE /\ pm' = ProdEntered
                /\ hist' = [last |-> "prod", clean |-> FALSE]
                /\ wr' = [wr EXCEPT !.pc = "prod"]
                /\ UNCHANGED deliv
    /\ UNCHANGED <<config, clock, mdDirs, expDir, srcFile, exps,
                   inst, run, al, calls, vd, sp>>

\* "Collect output files" to the end: the jsonl files of the source
\* directory are copied to output_dir, the temporary directory is removed
\* and the result returned; an OSError in a copy or in rmtree leads to
\* "except Exception".
WrapCollect ==
    /\ \/ wr.pc = "collect"
       \/ wr.pc = "prod" /\ pm.pc = "ret"
    /\ \E io \in {"ok", "copy", "rmtree"} :
          LET copied == [k \in DOMAIN wr.output \cup DOMAIN deliv |->
                            IF k \in DOMAIN deliv THEN deliv[k] ELSE wr.output[k]]
          IN  IF io = "ok"
              THEN /\ wr' = [wr EXCEPT
                                !.pc = "ret", !.at = "end", !.temp = FALSE,
                                !.output = copied,
                                !.result =
                                    Some([success |-> TRUE,
                                          chunks |-> ChunksKey \in DOMAIN deliv,
                                          alignments |-> {k \in DOMAIN deliv : k[1] = "pair"}])]
                   /\ mdDirs' = NoDirs
                   /\ deliv' = EmptyDir
                   /\ expDir' = FALSE
                   /\ srcFile' = None
                   /\ exps' = NoExps
              ELSE /\ wr' = [wr EXCEPT
                                !.pc = "ret", !.at = io,
                                !.output = IF io = "rmtree" THEN copied ELSE @,
                                !.result = Some([success |-> FALSE])]
                   /\ UNCHANGED <<mdDirs, deliv, expDir, srcFile, exps>>
    /\ UNCHANGED <<config, clock, inst, run, al, pm, calls, hist, vd, sp>>

\* (the target languages are the ones detected in the corpus, so no pair is
\* skipped for want of entries)
SpecWrapper ==
    InitWrapper
    /\ [][\/ WrapConvert \/ WrapMerge \/ WrapAlign
          \/ AlignLoad \/ AlignerThrows \/ AlignPair \/ AlignMeta \/ AlignFinish
          \/ WrapMove
          \/ ProdCheck \/ ProdCopyChunks \/ ProdCopyAligned \/ ProdRmExp \/ ProdRmMd
          \/ WrapCollect]_vars

\* C28: when the alignment was asked for and failed (it returned False, or
\* bertalign could not be imported), generate_jsonl is not aborted for it:
\* it returns through the error path only if a copy or the rmtree of the
\* collection raised; otherwise the result says success, names no alignment
\* file, the output directory holds no alignment file and holds as
\* chunks.jsonl what the by-hand copy made of the merged corpus (nothing if
\* no corpus was written), and the temporary directory is gone.  Whatever
\* the run, the temporary directory is left only when the result is an
\* error.
C28_AlignmentFailureTolerated ==
    wr.pc = "ret" =>
        /\ wr.temp => ~The(wr.result).success
        /\ wr.run_alignment /\ wr.alignment_failed =>
              /\ wr.at \in {"end", "copy", "rmtree"}
              /\ wr.at = "end" =>
                    /\ The(wr.result).success
                    /\ The(wr.result).alignments = {}
                    /\ ~wr.temp
                    /\ DOMAIN wr.output \subseteq {ChunksKey}
                    /\ The(wr.result).chunks = (wr.pdf_files # {})
                    /\ wr.pdf_files # {} =>
                          wr.output[ChunksKey] \in
                              {File(process_md_files(MkDocs(wr.pdf_files))), Truncated}

\* run_bert_alignment returned False (bertalign not importable), the merged
\* chunks of en and it went out as chunks.jsonl and the result is a success
C28_Witness ==
    /\ wr.pc = "ret"
    /\ wr.run_alignment
    /\ wr.alignment_failed
    /\ al.pc = "ret" /\ al.ret = "fail"
    /\ wr.pdf_files = {"en", "it"}
    /\ The(wr.result).success
    /\ The(wr.result).alignments = {}
    /\ wr.output[ChunksKey] = File(process_md_files(MkDocs({"en", "it"})))
    /\ ~wr.temp

====
